---- MODULE Spec2Model ----
(***************************************************************************)
(* Model of the orchestration engine of vscode-telemetry-cleaner:          *)
(*   - the foreground loop ZenGarden::run (src/src/zen_garden.rs) with its *)
(*     key handling and handle_event,                                      *)
(*   - the unbounded event channel between it and the background worker,   *)
(*   - the background worker zen_operations_with_cards and the library     *)
(*     pipelines clean_augment_extension / clean_cursor_ide it calls,      *)
(*   - zen_operations, the older worker body that takes the locations one  *)
(*     at a time and talks to the event channel directly,                  *)
(*   - update_vscode_storage / clean_vscode_databases as far as their      *)
(*     return value and the events they send are concerned.                *)
(*                                                                         *)
(* The filesystem, the process table and the stores are the environment:   *)
(* every call into them draws its outcome from a small set of cases.       *)
(* Locations are numbered 1..n in discovery order and stand for their      *)
(* paths in the events.  Not modelled: the text of a LogMessage / Warning, *)
(* the path and cause text inside a CleanerError, the display journal      *)
(* (ZenGarden.events).  At most MaxFails sub-operations fail in one run.   *)
(***************************************************************************)
EXTENDS Naturals, Sequences, FiniteSets, TLC

\* ------------------------------------------------------------------ bounds
\* most locations one discovery returns
MaxLocs == 2
\* most process names one termination pass kills / most stones found
MaxProcs == 1
\* most sub-operations the environment lets fail in one run
MaxFails == 2
\* most consecutive calls of clean_vscode_databases on one directory
MaxRuns == 2
\* most calls of add_error and add_warning on one ErrorCollector
MaxCalls == 4

\* ------------------------------------------------------------------ state
VARIABLES
  args,       \* CliArgs: no_signout, no_terminate, augment, cursor
  body,       \* which async fn runs as the worker (see Init)
  cpc,        \* position of ZenGarden::run: "new", "loop", "exited"
  ui,         \* fields of ZenGarden
  chan,       \* the queue of the unbounded channel created in run
  wpc,        \* position of the background worker
  wk,         \* locals of the worker and of the pipeline it is in
  log,        \* history: what the current pipeline did, in order
  subFails,   \* history: failed sub-operations of the worker run so far
  sentStat,   \* history: what the worker has sent on the channel
  lastSeen,   \* history: last worker stamp handled, and whether out of order
  platform,   \* the build target of a single call studied alone (cfg(unix) / cfg(windows))
  disk,       \* the files that call works on
  call        \* that call: function, position, locals, result, what it emitted

\* the engine (run and its worker), and a library call studied alone
engine == <<args, body, cpc, ui, chan, wpc, wk, log, subFails, sentStat, lastSeen>>
unit == <<platform, disk, call>>

vars == <<engine, unit>>

Cards == {"Augment", "Cursor"}

\* ------------------------------------------------------------------ values
\* utils.rs CleanerError: kind and operation label (the resource path and the
\* cause text are not modelled)
CleanerError(kind, operation) == [kind |-> kind, operation |-> operation]

\* zen_garden.rs ZenEvent; errs carries DetailedError's error or
\* ErrorSummary's collector
ZenEvent(type, arg, errs) == [type |-> type, arg |-> arg, errs |-> errs]

LogMessage == ZenEvent("LogMessage", 0, <<>>)
DetailedError(e) == ZenEvent("DetailedError", 0, <<e>>)
ErrorSummary(errors) == ZenEvent("ErrorSummary", Len(errors), errors)

\* one line of the history: what was done, on which location (0: none), how
\* it ended, how many of its sub-operations failed, and who did it
Entry(op, loc, ok, fails, by) ==
  [op |-> op, loc |-> loc, ok |-> ok, fails |-> fails, by |-> by]

Repeat(e, k) == [i \in 1..k |-> e]

\* ------------------------------------------------------------------ channel
\* the receiver half lives in run's frame: dropped when run returns
RxOpen == cpc # "exited"

\* UnboundedSender::send never waits for room or for the receiver
CanSendWhenRoom(q) == Len(q) < 3
CanSend(q) == TRUE

\* send: queued when the receiver is alive, else Err (ignored by `let _ =`)
Enqueue(q, open, evs) == IF open THEN q \o evs ELSE q

\* try_recv takes the oldest queued event
TryRecvNewest(q) == [event |-> q[Len(q)], rest |-> SubSeq(q, 1, Len(q) - 1)]
TryRecv(q) == [event |-> Head(q), rest |-> Tail(q)]

\* history stamp put on what the worker sends
Stamp(evs, from, src) ==
  [i \in 1..Len(evs) |->
     [type |-> evs[i].type, arg |-> evs[i].arg, errs |-> evs[i].errs,
      src |-> src, seq |-> IF src = "worker" THEN from + i ELSE 0]]

CountType(evs, t) == Cardinality({i \in 1..Len(evs) : evs[i].type = t})

\* index of the first OperationComplete in evs, 0 when none
FirstComplete(evs) ==
  IF CountType(evs, "OperationComplete") = 0 THEN 0
  ELSE CHOOSE i \in 1..Len(evs) :
         /\ evs[i].type = "OperationComplete"
         /\ \A j \in 1..(i - 1) : evs[j].type # "OperationComplete"

SumArgs(evs, t) ==
  LET idx == {i \in 1..Len(evs) : evs[i].type = t}
      RECURSIVE Sum(_)
      Sum(S) == IF S = {} THEN 0
                ELSE LET i == CHOOSE x \in S : TRUE IN evs[i].arg + Sum(S \ {i})
  IN Sum(idx)

Tally(st, evs) ==
  [nsent       |-> st.nsent + Len(evs),
   complete    |-> st.complete + CountType(evs, "OperationComplete"),
   late        |-> st.late
                   + (IF st.complete > 0 THEN Len(evs)
                      ELSE IF FirstComplete(evs) = 0 THEN 0
                      ELSE Len(evs) - FirstComplete(evs)),
   summary     |-> st.summary + CountType(evs, "ErrorSummary"),
   summaryErrs |-> st.summaryErrs + SumArgs(evs, "ErrorSummary"),
   detailed    |-> st.detailed + CountType(evs, "DetailedError"),
   totalSet    |-> st.totalSet \/ CountType(evs, "SetTotalOperations") > 0,
   total       |-> IF CountType(evs, "SetTotalOperations") > 0
                   THEN SumArgs(evs, "SetTotalOperations") ELSE st.total,
   located     |-> st.located + CountType(evs, "LocationFound"),
   reported    |-> st.reported + CountType(evs, "StorageUpdated")
                   + CountType(evs, "DatabaseCleaned")]

\* the worker sends evs, in order, on its clone of the sender
WSend(evs) ==
  /\ CanSend(chan)
  /\ chan' = Enqueue(chan, RxOpen, Stamp(evs, sentStat.nsent, "worker"))
  /\ sentStat' = Tally(sentStat, evs)

NoSend == UNCHANGED <<chan, sentStat>>

\* ------------------------------------------------------------------ storage.rs
\* The document of a location, as update_storage_json finds it:
\*   "absent"  no storage.json               -> one log line, Ok
\*   "ok"      read, four keys set, written  -> log lines, Ok
\*   "err"     storage.json cannot be read   -> one log line, Err
update_storage_json(doc) ==
  CASE doc = "absent" -> [events |-> <<LogMessage>>, ok |-> TRUE]
    [] doc = "ok"     -> [events |-> Repeat(LogMessage, 6), ok |-> TRUE]
    [] doc = "err"    -> [events |-> <<LogMessage>>, ok |-> FALSE]

\* The flat identifier file, as update_machine_id_file finds it:
\*   "ok"   old value logged, removed, new value written and locked -> Ok
\*   "err"  the write of the new value fails                        -> Err
update_machine_id_file(mid) ==
  CASE mid = "ok"  -> [events |-> Repeat(LogMessage, 4), ok |-> TRUE]
    [] mid = "err" -> [events |-> Repeat(LogMessage, 3), ok |-> FALSE]

\* update_vscode_storage(directory, tx): both sub-operations, each failure
\* sent as DetailedError on tx and collected; ErrorSummary and Err if any
update_vscode_storage(c, loc) ==
  LET j  == update_storage_json(c.doc)
      e1 == CleanerError("FileSystem", "updating storage.json")
      m  == update_machine_id_file(c.mid)
      e2 == CleanerError("FileSystem", "updating machine id file")
      errors == (IF j.ok THEN <<>> ELSE <<e1>>)
                \o (IF c.is_file /\ ~m.ok THEN <<e2>> ELSE <<>>)
  IN [events |-> j.events
                 \o (IF j.ok THEN <<>> ELSE <<DetailedError(e1)>>)
                 \o (IF c.is_file
                     THEN m.events \o (IF m.ok THEN <<>> ELSE <<DetailedError(e2)>>)
                     ELSE <<>>)
                 \o (IF errors # <<>> THEN <<ErrorSummary(errors)>> ELSE <<>>),
      ok |-> errors = <<>>,
      fails |-> Len(errors)]

\* what a location can be when the Storage Mutator gets to it: a directory
\* with a document, or a flat identifier file (under which no storage.json
\* exists)
StorageCases ==
  { [doc |-> "ok",     is_file |-> FALSE, mid |-> "ok"],
    [doc |-> "err",    is_file |-> FALSE, mid |-> "ok"],
    [doc |-> "absent", is_file |-> TRUE,  mid |-> "ok"],
    [doc |-> "absent", is_file |-> TRUE,  mid |-> "err"] }

\* ------------------------------------------------------------------ database.rs
\* One store file, as clean_database_file finds it:
\*   "absent"  no such file                     -> one log line, Ok
\*   "clean"   opened, count 0                  -> two log lines, Ok
\*   "dirty"   opened, count > 0, rows deleted  -> three log lines, Ok
\*   "err"     the store cannot be opened       -> one log line, Err
clean_database_file(db) ==
  CASE db = "absent" -> [events |-> <<LogMessage>>, ok |-> TRUE]
    [] db = "clean"  -> [events |-> Repeat(LogMessage, 2), ok |-> TRUE]
    [] db = "dirty"  -> [events |-> Repeat(LogMessage, 3), ok |-> TRUE]
    [] db = "err"    -> [events |-> <<LogMessage>>, ok |-> FALSE]

\* clean_vscode_databases(directory, tx): state.vscdb, then state.vscdb.backup
clean_vscode_databases(c, loc) ==
  LET p  == clean_database_file(c.primary)
      e1 == CleanerError("Database", "cleaning state.vscdb")
      b  == clean_database_file(c.backup)
      e2 == CleanerError("Database", "cleaning state.vscdb.backup")
      errors == (IF p.ok THEN <<>> ELSE <<e1>>) \o (IF b.ok THEN <<>> ELSE <<e2>>)
  IN [events |-> p.events
                 \o (IF p.ok THEN <<>> ELSE <<DetailedError(e1)>>)
                 \o b.events
                 \o (IF b.ok THEN <<>> ELSE <<DetailedError(e2)>>)
                 \o (IF errors # <<>> THEN <<ErrorSummary(errors)>> ELSE <<>>),
      ok |-> errors = <<>>,
      fails |-> Len(errors)]

\* what the two store files of a location can be when the Database
\* Sanitizer gets to it
DbCases ==
  { [primary |-> "dirty", backup |-> "absent"],
    [primary |-> "clean", backup |-> "err"],
    [primary |-> "err",   backup |-> "err"] }

\* cursor.rs clean_cursor_config: Ok(false) when the Cursor storage.json is
\* absent, Ok(true) when it was backed up and rewritten, Err otherwise
ConfigCases == {"absent", "updated", "err"}

\* ------------------------------------------------------------------ ZenGarden
\* the same, were the selection screen shown whatever the flags
NewGardenSelecting(a) ==
  [state                |-> "CardSelection",
   processes            |-> <<>>,
   locations            |-> 0,
   progress             |-> [num |-> 0, den |-> 1],
   total_operations     |-> 0,
   completed_operations |-> 0,
   should_quit          |-> FALSE,
   selected_stone       |-> 0,
   error_collector      |-> [errors |-> <<>>, warnings |-> 0],
   detailed_errors      |-> 0,
   warnings             |-> 0,
   cards                |-> [Augment |-> a.augment, Cursor |-> a.cursor],
   selected_card        |-> 0]

\* ZenGarden::new: the flags pre-select the cards and skip the selection screen
NewGarden(a) ==
  [state                |-> IF a.augment \/ a.cursor THEN "Scanning" ELSE "CardSelection",
   processes            |-> <<>>,
   locations            |-> 0,
   progress             |-> [num |-> 0, den |-> 1],
   total_operations     |-> 0,
   completed_operations |-> 0,
   should_quit          |-> FALSE,
   selected_stone       |-> 0,
   error_collector      |-> [errors |-> <<>>, warnings |-> 0],
   detailed_errors      |-> 0,
   warnings             |-> 0,
   cards                |-> [Augment |-> a.augment, Cursor |-> a.cursor],
   selected_card        |-> 0]

CardAt(i) == IF i = 0 THEN "Augment" ELSE "Cursor"

\* update_progress
update_progress(u) ==
  IF u.total_operations > 0
  THEN [u EXCEPT !.progress = [num |-> u.completed_operations, den |-> u.total_operations]]
  ELSE u

Completed(u) ==
  update_progress([u EXCEPT !.completed_operations = u.completed_operations + 1])

\* handle_event
handle_event(u, e) ==
  CASE e.type = "StartScanning" -> [u EXCEPT !.state = "Scanning"]
    [] e.type = "ProcessFound" -> [u EXCEPT !.processes = Append(u.processes, FALSE)]
    [] e.type = "LocationFound" -> [u EXCEPT !.locations = u.locations + 1]
    [] e.type \in {"ProcessTerminated", "StorageUpdated", "DatabaseCleaned"} -> Completed(u)
    [] e.type = "OperationComplete" ->
         [u EXCEPT !.state = "Complete", !.progress = [num |-> 1, den |-> 1]]
    [] e.type = "Error" -> [u EXCEPT !.state = "Error"]
    [] e.type = "DetailedError" ->
         [u EXCEPT !.detailed_errors = u.detailed_errors + 1,
                   !.error_collector.errors = u.error_collector.errors \o e.errs]
    [] e.type = "Warning" ->
         [u EXCEPT !.warnings = u.warnings + 1,
                   !.error_collector.warnings = u.error_collector.warnings + 1]
    [] e.type = "ErrorSummary" ->
         [u EXCEPT !.error_collector = [errors |-> e.errs, warnings |-> 0],
                   !.state = IF e.errs # <<>> THEN "Error" ELSE u.state]
    [] e.type = "LogMessage" -> u
    [] e.type = "SetTotalOperations" ->
         [u EXCEPT !.total_operations = e.arg,
                   !.completed_operations = 0,
                   !.progress = [num |-> 0, den |-> 1]]

\* ------------------------------------------------------------------ worker start
NewResult ==
  [processes_terminated |-> 0,
   directories_found    |-> 0,
   databases_cleaned    |-> <<>>,
   storage_updated      |-> <<>>,
   config_updated       |-> FALSE,
   errors               |-> <<>>]

\* spawned is history: how many workers this run has spawned so far
NewWorker(selected) ==
  [selected_cards |-> selected, n |-> 0, idx |-> 0, procs |-> 0, result |-> NewResult,
   spawned |-> 0]

\* tokio::spawn of the worker body
Spawn(selected) ==
  /\ wpc' = IF body = "zen_operations" THEN "z_start" ELSE "c_start"
  /\ wk' = [NewWorker(selected) EXCEPT !.spawned = wk.spawned + 1]

\* ------------------------------------------------------------------ ZenGarden::run
\* run, up to its loop: the channel is created and, when a card flag was
\* given, the worker is spawned with the flagged cards
RunStart ==
  /\ cpc = "new"
  /\ cpc' = "loop"
  /\ IF args.augment \/ args.cursor
     THEN Spawn({c \in Cards : NewGarden(args).cards[c]})
     ELSE UNCHANGED <<wpc, wk>>
  /\ UNCHANGED <<args, body, ui, chan, log, subFails, sentStat, lastSeen>>
  /\ UNCHANGED unit

\* 'q' / Esc: should_quit, break; run returns and drops the receiver with
\* whatever is still queued
KeyQuit ==
  /\ cpc = "loop"
  /\ cpc' = "exited"
  /\ ui' = [ui EXCEPT !.should_quit = TRUE]
  /\ chan' = <<>>
  /\ UNCHANGED <<args, body, wpc, wk, log, subFails, sentStat, lastSeen>>
  /\ UNCHANGED unit

\* Enter / Space on the meditation screen: terminate the selected stone
TerminateStone ==
  IF /\ ui.selected_stone < Len(ui.processes)
     /\ ~ui.processes[ui.selected_stone + 1]
  THEN /\ ui' = [ui EXCEPT !.processes[ui.selected_stone + 1] = TRUE]
       /\ chan' = Enqueue(chan, RxOpen,
                          Stamp(<<ZenEvent("ProcessTerminated", ui.selected_stone + 1, <<>>)>>,
                                0, "ui"))
       /\ log' = Append(log, Entry("terminate", 0, TRUE, 0, "ui"))
  ELSE UNCHANGED <<ui, chan, log>>

KeyEnter ==
  /\ cpc = "loop"
  /\ CASE ui.state = "Welcome" ->
            /\ ui' = [ui EXCEPT !.state = "CardSelection"]
            /\ UNCHANGED <<chan, log, wpc, wk>>
       [] ui.state = "CardSelection" ->
            LET selected == {c \in Cards : ui.cards[c]} IN
            IF selected # {}
            THEN /\ ui' = [ui EXCEPT !.state = "Scanning"]
                 /\ Spawn(selected)
                 /\ UNCHANGED <<chan, log>>
            ELSE UNCHANGED <<ui, chan, log, wpc, wk>>
       [] ui.state \in {"Scanning", "Processing"} ->
            /\ TerminateStone
            /\ UNCHANGED <<wpc, wk>>
       [] OTHER -> UNCHANGED <<ui, chan, log, wpc, wk>>
  /\ UNCHANGED <<args, body, cpc, subFails, sentStat, lastSeen>>
  /\ UNCHANGED unit

KeySpace ==
  /\ cpc = "loop"
  /\ CASE ui.state = "CardSelection" ->
            /\ ui' = [ui EXCEPT !.cards[CardAt(ui.selected_card)] = ~@]
            /\ UNCHANGED <<chan, log>>
       [] ui.state \in {"Scanning", "Processing"} -> TerminateStone
       [] OTHER -> UNCHANGED <<ui, chan, log>>
  /\ UNCHANGED <<args, body, cpc, wpc, wk, subFails, sentStat, lastSeen>>
  /\ UNCHANGED unit

\* Tab and Down move to the next card; Down also moves to the next stone
KeyTab ==
  /\ cpc = "loop"
  /\ ui' = IF ui.state = "CardSelection"
           THEN [ui EXCEPT !.selected_card = (ui.selected_card + 1) % 2]
           ELSE ui
  /\ UNCHANGED <<args, body, cpc, chan, wpc, wk, log, subFails, sentStat, lastSeen>>
  /\ UNCHANGED unit

KeyUp ==
  /\ cpc = "loop"
  /\ ui' = IF ui.state = "CardSelection"
           THEN [ui EXCEPT !.selected_card = IF @ > 0 THEN @ - 1 ELSE 1]
           ELSE IF ui.processes # <<>> /\ ui.selected_stone > 0
           THEN [ui EXCEPT !.selected_stone = @ - 1]
           ELSE ui
  /\ UNCHANGED <<args, body, cpc, chan, wpc, wk, log, subFails, sentStat, lastSeen>>
  /\ UNCHANGED unit

KeyDown ==
  /\ cpc = "loop"
  /\ ui' = IF ui.state = "CardSelection"
           THEN [ui EXCEPT !.selected_card = (ui.selected_card + 1) % 2]
           ELSE IF ui.processes # <<>> /\ ui.selected_stone < Len(ui.processes) - 1
           THEN [ui EXCEPT !.selected_stone = @ + 1]
           ELSE ui
  /\ UNCHANGED <<args, body, cpc, chan, wpc, wk, log, subFails, sentStat, lastSeen>>
  /\ UNCHANGED unit

\* `while let Ok(event) = rx.try_recv() { self.handle_event(event); }`:
\* the queue is taken event by event until try_recv finds it empty.
\* seen.last is the stamp of the last worker event handled; seen.disorder
\* records that a worker event was handled whose stamp did not follow it.
\* the same, were the events received and dropped
DrainAllDropped(u, q, seen) == [ui |-> u, seen |-> seen]

RECURSIVE DrainAll(_, _, _)
DrainAll(u, q, seen) ==
  IF q = <<>> THEN [ui |-> u, seen |-> seen]
  ELSE LET r == TryRecv(q)
           e == r.event
       IN DrainAll(handle_event(u, e), r.rest,
                   IF e.src = "worker"
                   THEN [last |-> e.seq,
                         disorder |-> seen.disorder \/ e.seq # seen.last + 1]
                   ELSE seen)

HandleEvents ==
  /\ cpc = "loop"
  /\ chan # <<>>
  /\ LET d == DrainAll(ui, chan, lastSeen) IN
       /\ ui' = d.ui
       /\ lastSeen' = d.seen
  /\ chan' = <<>>
  /\ UNCHANGED <<args, body, cpc, wpc, wk, log, subFails, sentStat>>
  /\ UNCHANGED unit

\* ------------------------------------------------------------------ pipelines
\* Both arms of the match on a location's result end the iteration and the
\* loop goes on with the next location (`Err(_) => continue`, add_error)
AfterAttemptAbort(ok, i, n) == IF ok THEN i + 1 ELSE n + 1
AfterAttempt(ok, i, n) == i + 1

\* the position after one phase (a loop over the locations, or one list of
\* sends): `here` while it has more to do, else `next`
Loop(i, n, here, next) == IF i <= n THEN here ELSE next

\* augment.rs clean_augment_extension, steps 3 and 4, in source order
AugmentPhasesSwapped == <<"a_st", "a_db">>
AugmentPhases == <<"a_db", "a_st">>

\* cursor.rs clean_cursor_ide, steps 4 and 5, in source order
CursorPhases == <<"u_st", "u_db">>

\* ---- zen_operations_with_cards ----
do_augment == "Augment" \in wk.selected_cards
do_cursor == "Cursor" \in wk.selected_cards

\* total_operations: 3 for the augment card, 2 for the cursor card
CardsTotal(selected) ==
  (IF "Augment" \in selected THEN 3 ELSE 0) + (IF "Cursor" \in selected THEN 2 ELSE 0)

CStart ==
  /\ wpc = "c_start"
  /\ WSend(<<ZenEvent("StartScanning", 0, <<>>)>>)
  /\ wpc' = "c_total"
  /\ UNCHANGED <<args, body, cpc, ui, wk, log, subFails, lastSeen>>
  /\ UNCHANGED unit

CTotal ==
  /\ wpc = "c_total"
  /\ WSend(<<ZenEvent("SetTotalOperations", CardsTotal(wk.selected_cards), <<>>)>>)
  /\ wpc' = IF do_augment THEN "c_aug" ELSE IF do_cursor THEN "c_cur" ELSE "c_fin"
  /\ UNCHANGED <<args, body, cpc, ui, wk, log, subFails, lastSeen>>
  /\ UNCHANGED unit

\* "beginning augment extension purification...", then the call
CAug ==
  /\ wpc = "c_aug"
  /\ WSend(<<LogMessage>>)
  /\ wpc' = "a_term"
  /\ UNCHANGED <<args, body, cpc, ui, wk, log, subFails, lastSeen>>
  /\ UNCHANGED unit

\* ---- augment.rs clean_augment_extension ----
\* step 1: terminate_augment_processes, unless no_terminate; always Ok
ATerminateSkipped ==
  /\ wpc = "a_term"
  /\ wpc' = "a_find"
  /\ UNCHANGED <<args, body, cpc, ui, chan, wk, log, subFails, sentStat, lastSeen>>
  /\ UNCHANGED unit

ATerminate ==
  /\ wpc = "a_term"
  /\ IF ~args.no_terminate
     THEN \E p \in 0..MaxProcs :
            /\ wk' = [wk EXCEPT !.result.processes_terminated = p]
            /\ log' = Append(log, Entry("terminate", 0, TRUE, 0, "augment"))
     ELSE UNCHANGED <<wk, log>>
  /\ wpc' = "a_find"
  /\ NoSend
  /\ UNCHANGED <<args, body, cpc, ui, subFails, lastSeen>>
  /\ UNCHANGED unit

\* the same, were step 3 (augment) / step 5 (cursor) not under `if !args.no_signout`
PhaseAfterUngated(phases, k, n, sanitize, last) ==
  LET rest == SelectSeq(SubSeq(phases, k + 1, Len(phases)), LAMBDA ph : n > 0)
  IN IF rest = <<>> THEN last ELSE Head(rest)

\* the phase that follows phase number k of `phases` for n locations
PhaseAfter(phases, k, n, sanitize, last) ==
  LET rest == SelectSeq(SubSeq(phases, k + 1, Len(phases)),
                        LAMBDA ph : n > 0 /\ (ph \in {"a_db", "u_db"} => sanitize))
  IN IF rest = <<>> THEN last ELSE Head(rest)

PhaseNo(phases, ph) == CHOOSE k \in 1..Len(phases) : phases[k] = ph

\* what zen_operations_with_cards sends for an AugmentCleaningResult
AugmentEvents(r) ==
  [i \in 1..r.processes_terminated |-> ZenEvent("ProcessTerminated", i, <<>>)]
  \o [i \in 1..r.directories_found |-> ZenEvent("LocationFound", i, <<>>)]
  \o [i \in 1..Len(r.storage_updated) |-> ZenEvent("StorageUpdated", r.storage_updated[i], <<>>)]
  \o [i \in 1..Len(r.databases_cleaned) |-> ZenEvent("DatabaseCleaned", r.databases_cleaned[i], <<>>)]
  \o (IF r.errors # <<>> THEN <<ErrorSummary(r.errors)>> ELSE <<>>)

\* what it sends for a CursorCleaningResult
CursorEvents(r) ==
  [i \in 1..r.processes_terminated |-> ZenEvent("ProcessTerminated", i, <<>>)]
  \o [i \in 1..r.directories_found |-> ZenEvent("LocationFound", i, <<>>)]
  \o (IF r.config_updated THEN <<ZenEvent("StorageUpdated", 0, <<>>)>> ELSE <<>>)
  \o (IF r.errors # <<>> THEN <<ErrorSummary(r.errors)>> ELSE <<>>)

AfterAugment == IF do_cursor THEN "c_cur" ELSE "c_fin"

\* step 2: find_augment_storage_directories
AFind ==
  /\ wpc = "a_find"
  /\ \E n \in 0..MaxLocs :
       /\ wk' = [wk EXCEPT !.n = n, !.idx = 1, !.result.directories_found = n]
       /\ wpc' = PhaseAfter(AugmentPhases, 0, n, ~args.no_signout, "a_emit")
  /\ log' = Append(log, Entry("discover", 0, TRUE, 0, "augment"))
  /\ NoSend
  /\ UNCHANGED <<args, body, cpc, ui, subFails, lastSeen>>
  /\ UNCHANGED unit

\* step 3: clean_augment_databases, one location per step, each on a channel
\* of its own whose receiver is never read
ADb ==
  /\ wpc = "a_db"
  /\ \E c \in DbCases :
       LET r == clean_vscode_databases(c, wk.idx)
           i == AfterAttempt(r.ok, wk.idx, wk.n)
       IN /\ wk' = [wk EXCEPT
                      !.result.databases_cleaned = IF r.ok THEN Append(@, wk.idx) ELSE @,
                      !.idx = IF i <= wk.n THEN i ELSE 1]
          /\ wpc' = Loop(i, wk.n, "a_db",
                         PhaseAfter(AugmentPhases, PhaseNo(AugmentPhases, "a_db"),
                                    wk.n, ~args.no_signout, "a_emit"))
          /\ log' = Append(log, Entry("sanitize", wk.idx, r.ok, r.fails, "augment"))
          /\ subFails + r.fails <= MaxFails
          /\ subFails' = subFails + r.fails
  /\ NoSend
  /\ UNCHANGED <<args, body, cpc, ui, lastSeen>>
  /\ UNCHANGED unit

\* the same, were each location reported on the worker's channel as soon
\* as it is updated
AStReporting ==
  /\ wpc = "a_st"
  /\ \E c \in StorageCases :
       LET r == update_vscode_storage(c, wk.idx)
           i == AfterAttempt(r.ok, wk.idx, wk.n)
       IN /\ wk' = [wk EXCEPT
                      !.result.storage_updated = IF r.ok THEN Append(@, wk.idx) ELSE @,
                      !.idx = IF i <= wk.n THEN i ELSE 1]
          /\ wpc' = Loop(i, wk.n, "a_st",
                         PhaseAfter(AugmentPhases, PhaseNo(AugmentPhases, "a_st"),
                                    wk.n, ~args.no_signout, "a_emit"))
          /\ log' = Append(log, Entry("mutate", wk.idx, r.ok, r.fails, "augment"))
          /\ subFails + r.fails <= MaxFails
          /\ subFails' = subFails + r.fails
          /\ WSend(<<ZenEvent("StorageUpdated", wk.idx, <<>>)>>)
  /\ UNCHANGED <<args, body, cpc, ui, lastSeen>>
  /\ UNCHANGED unit

\* step 4: update_augment_storage, likewise
ASt ==
  /\ wpc = "a_st"
  /\ \E c \in StorageCases :
       LET r == update_vscode_storage(c, wk.idx)
           i == AfterAttempt(r.ok, wk.idx, wk.n)
       IN /\ wk' = [wk EXCEPT
                      !.result.storage_updated = IF r.ok THEN Append(@, wk.idx) ELSE @,
                      !.idx = IF i <= wk.n THEN i ELSE 1]
          /\ wpc' = Loop(i, wk.n, "a_st",
                         PhaseAfter(AugmentPhases, PhaseNo(AugmentPhases, "a_st"),
                                    wk.n, ~args.no_signout, "a_emit"))
          /\ log' = Append(log, Entry("mutate", wk.idx, r.ok, r.fails, "augment"))
          /\ subFails + r.fails <= MaxFails
          /\ subFails' = subFails + r.fails
  /\ NoSend
  /\ UNCHANGED <<args, body, cpc, ui, lastSeen>>
  /\ UNCHANGED unit

\* Ok(result): the sends of the match arm (no await between them), after
\* which the result and the pipeline's history are gone; the Err arm is
\* never taken, clean_augment_extension has no path that returns Err
AEmit ==
  /\ wpc = "a_emit"
  /\ WSend(AugmentEvents(wk.result))
  /\ wpc' = AfterAugment
  /\ wk' = [NewWorker(wk.selected_cards) EXCEPT !.spawned = wk.spawned]
  /\ log' = <<>>
  /\ UNCHANGED <<args, body, cpc, ui, subFails, lastSeen>>
  /\ UNCHANGED unit

\* "beginning cursor ide purification...", then the call
CCur ==
  /\ wpc = "c_cur"
  /\ WSend(<<LogMessage>>)
  /\ wpc' = "u_term"
  /\ UNCHANGED <<args, body, cpc, ui, wk, log, subFails, lastSeen>>
  /\ UNCHANGED unit

\* ---- cursor.rs clean_cursor_ide ----
\* step 1: terminate_cursor_processes, unless no_terminate; always Ok
UTerminate ==
  /\ wpc = "u_term"
  /\ IF ~args.no_terminate
     THEN \E terminated \in BOOLEAN :
            /\ wk' = [wk EXCEPT !.result.processes_terminated = IF terminated THEN 1 ELSE 0]
            /\ log' = Append(log, Entry("terminate", 0, TRUE, 0, "cursor"))
     ELSE UNCHANGED <<wk, log>>
  /\ wpc' = "u_find"
  /\ NoSend
  /\ UNCHANGED <<args, body, cpc, ui, subFails, lastSeen>>
  /\ UNCHANGED unit

\* steps 2 and 3: generate_cursor_ids, find_cursor_storage_directories
\* (directories_found stands for CursorCleaningResult.directories_removed)
UFind ==
  /\ wpc = "u_find"
  /\ \E n \in 0..MaxLocs :
       /\ wk' = [wk EXCEPT !.n = n, !.idx = 1, !.result.directories_found = n]
       /\ wpc' = PhaseAfter(CursorPhases, 0, n, ~args.no_signout, "u_cfg")
  /\ log' = Append(log, Entry("discover", 0, TRUE, 0, "cursor"))
  /\ NoSend
  /\ UNCHANGED <<args, body, cpc, ui, subFails, lastSeen>>
  /\ UNCHANGED unit

\* step 4: update_vscode_storage per location, each on a channel of its own
\* whose receiver is never read
USt ==
  /\ wpc = "u_st"
  /\ \E c \in StorageCases :
       LET r == update_vscode_storage(c, wk.idx)
           i == AfterAttempt(r.ok, wk.idx, wk.n)
       IN /\ wk' = [wk EXCEPT
                      !.result.config_updated = IF r.ok THEN TRUE ELSE @,
                      !.result.errors =
                         IF r.ok THEN @
                         ELSE Append(@, CleanerError("Json", "update_storage")),
                      !.idx = IF i <= wk.n THEN i ELSE 1]
          /\ wpc' = Loop(i, wk.n, "u_st",
                         PhaseAfter(CursorPhases, PhaseNo(CursorPhases, "u_st"),
                                    wk.n, ~args.no_signout, "u_cfg"))
          /\ log' = Append(log, Entry("mutate", wk.idx, r.ok, r.fails, "cursor"))
          /\ subFails + r.fails <= MaxFails
          /\ subFails' = subFails + r.fails
  /\ NoSend
  /\ UNCHANGED <<args, body, cpc, ui, lastSeen>>
  /\ UNCHANGED unit

\* step 5: clean_vscode_databases per location, unless no_signout
UDb ==
  /\ wpc = "u_db"
  /\ \E c \in DbCases :
       LET r == clean_vscode_databases(c, wk.idx)
           i == AfterAttempt(r.ok, wk.idx, wk.n)
       IN /\ wk' = [wk EXCEPT
                      !.result.errors =
                         IF r.ok THEN @
                         ELSE Append(@, CleanerError("Database", "clean_databases")),
                      !.idx = IF i <= wk.n THEN i ELSE 1]
          /\ wpc' = Loop(i, wk.n, "u_db",
                         PhaseAfter(CursorPhases, PhaseNo(CursorPhases, "u_db"),
                                    wk.n, ~args.no_signout, "u_cfg"))
          /\ log' = Append(log, Entry("sanitize", wk.idx, r.ok, r.fails, "cursor"))
          /\ subFails + r.fails <= MaxFails
          /\ subFails' = subFails + r.fails
  /\ NoSend
  /\ UNCHANGED <<args, body, cpc, ui, lastSeen>>
  /\ UNCHANGED unit

\* the same, were the Cursor storage.json looked for somewhere else than in
\* the globalStorage directory that discovery looks for
UCfgAnywhere ==
  /\ wpc = "u_cfg"
  /\ \E c \in ConfigCases :
       /\ wk' = [wk EXCEPT
                   !.result.config_updated = IF c = "updated" THEN TRUE ELSE @,
                   !.result.errors =
                      IF c = "err"
                      THEN Append(@, CleanerError("Json", "update_cursor_config"))
                      ELSE @,
                   !.idx = 1]
       /\ log' = Append(log, Entry("config", 0, c # "err", IF c = "err" THEN 1 ELSE 0, "cursor"))
       /\ subFails + (IF c = "err" THEN 1 ELSE 0) <= MaxFails
       /\ subFails' = subFails + (IF c = "err" THEN 1 ELSE 0)
  /\ wpc' = "u_emit"
  /\ NoSend
  /\ UNCHANGED <<args, body, cpc, ui, lastSeen>>
  /\ UNCHANGED unit

\* step 6: clean_cursor_config.  get_cursor_storage_path is storage.json in
\* the Cursor/User/globalStorage directory that find_cursor_storage_directories
\* returns when it exists: with no directory found the file is absent.
UCfg ==
  /\ wpc = "u_cfg"
  /\ \E c \in ConfigCases :
       /\ wk.n = 0 => c = "absent"
       /\ wk' = [wk EXCEPT
                   !.result.config_updated = IF c = "updated" THEN TRUE ELSE @,
                   !.result.errors =
                      IF c = "err"
                      THEN Append(@, CleanerError("Json", "update_cursor_config"))
                      ELSE @,
                   !.idx = 1]
       /\ log' = Append(log, Entry("config", 0, c # "err", IF c = "err" THEN 1 ELSE 0, "cursor"))
       /\ subFails + (IF c = "err" THEN 1 ELSE 0) <= MaxFails
       /\ subFails' = subFails + (IF c = "err" THEN 1 ELSE 0)
  /\ wpc' = "u_emit"
  /\ NoSend
  /\ UNCHANGED <<args, body, cpc, ui, lastSeen>>
  /\ UNCHANGED unit

\* Ok(result): the sends of the match arm (no await between them), after
\* which the result and the pipeline's history are gone
UEmit ==
  /\ wpc = "u_emit"
  /\ WSend(CursorEvents(wk.result))
  /\ wpc' = "c_fin"
  /\ wk' = [NewWorker(wk.selected_cards) EXCEPT !.spawned = wk.spawned]
  /\ log' = <<>>
  /\ UNCHANGED <<args, body, cpc, ui, subFails, lastSeen>>
  /\ UNCHANGED unit

\* "digital purification complete - mind at peace"
CFin ==
  /\ wpc = "c_fin"
  /\ WSend(<<LogMessage>>)
  /\ wpc' = "c_complete"
  /\ UNCHANGED <<args, body, cpc, ui, wk, log, subFails, lastSeen>>
  /\ UNCHANGED unit

CComplete ==
  /\ wpc = "c_complete"
  /\ WSend(<<ZenEvent("OperationComplete", 0, <<>>)>>)
  /\ wpc' = "done"
  /\ UNCHANGED <<args, body, cpc, ui, wk, log, subFails, lastSeen>>
  /\ UNCHANGED unit

\* ---- zen_operations ----
ZStart ==
  /\ wpc = "z_start"
  /\ WSend(<<ZenEvent("StartScanning", 0, <<>>)>>)
  /\ wpc' = "z_find"
  /\ UNCHANGED <<args, body, cpc, ui, wk, log, subFails, lastSeen>>
  /\ UNCHANGED unit

\* total_ops: one per directory, one more when sanitization is on
TotalOps(n, no_signout) == n * (IF no_signout THEN 1 ELSE 2)

\* find_vscode_storage_directories, then SetTotalOperations(total_ops)
ZFind ==
  /\ wpc = "z_find"
  /\ \E n \in 0..MaxLocs :
       /\ wk' = [wk EXCEPT !.n = n, !.idx = 1]
       /\ WSend(<<ZenEvent("SetTotalOperations", TotalOps(n, args.no_signout), <<>>)>>)
  /\ log' = <<Entry("discover", 0, TRUE, 0, "zen")>>
  /\ wpc' = "z_procs"
  /\ UNCHANGED <<args, body, cpc, ui, subFails, lastSeen>>
  /\ UNCHANGED unit

\* discover_vscode_processes, unless no_terminate: the stones are listed,
\* none is terminated here
ZProcs ==
  /\ wpc = "z_procs"
  /\ IF ~args.no_terminate
     THEN \E q \in 0..MaxProcs :
            /\ wk' = [wk EXCEPT !.procs = q]
            /\ WSend(IF q = 0 THEN <<LogMessage>>
                     ELSE [i \in 1..q |-> ZenEvent("ProcessFound", i, <<>>)])
     ELSE /\ NoSend
          /\ wk' = wk
  /\ wpc' = "z_locs"
  /\ UNCHANGED <<args, body, cpc, ui, log, subFails, lastSeen>>
  /\ UNCHANGED unit

ZLocs ==
  /\ wpc = "z_locs"
  /\ WSend([i \in 1..wk.n |-> ZenEvent("LocationFound", i, <<>>)])
  /\ wpc' = IF wk.n = 0 THEN "z_empty" ELSE "z_st"
  /\ UNCHANGED <<args, body, cpc, ui, wk, log, subFails, lastSeen>>
  /\ UNCHANGED unit

\* directories.is_empty(): "no vscode installations found ..."
ZEmpty ==
  /\ wpc = "z_empty"
  /\ WSend(<<LogMessage>>)
  /\ wpc' = "z_empty_complete"
  /\ UNCHANGED <<args, body, cpc, ui, wk, log, subFails, lastSeen>>
  /\ UNCHANGED unit

\* ... OperationComplete; return
ZEmptyFallsThrough ==
  /\ wpc = "z_empty_complete"
  /\ WSend(<<ZenEvent("OperationComplete", 0, <<>>)>>)
  /\ wpc' = "z_sum"
  /\ UNCHANGED <<args, body, cpc, ui, wk, log, subFails, lastSeen>>
  /\ UNCHANGED unit

ZEmptyComplete ==
  /\ wpc = "z_empty_complete"
  /\ WSend(<<ZenEvent("OperationComplete", 0, <<>>)>>)
  /\ wpc' = "done"
  /\ UNCHANGED <<args, body, cpc, ui, wk, log, subFails, lastSeen>>
  /\ UNCHANGED unit

\* update_vscode_storage(&directory, &tx) and the match on its result
ZSt ==
  /\ wpc = "z_st"
  /\ \E c \in StorageCases :
       LET r == update_vscode_storage(c, wk.idx)
           e == CleanerError("FileSystem", "storage update")
           i == AfterAttempt(r.ok, wk.idx, wk.n)
       IN /\ WSend(r.events
                   \o (IF r.ok THEN <<>> ELSE <<DetailedError(e)>>)
                   \o <<ZenEvent("StorageUpdated", wk.idx, <<>>)>>)
          /\ wk' = [wk EXCEPT
                      !.result.errors = IF r.ok THEN @ ELSE Append(@, e),
                      !.idx = IF args.no_signout THEN i ELSE @]
          /\ wpc' = IF ~args.no_signout THEN "z_db" ELSE Loop(i, wk.n, "z_st", "z_sum")
          /\ log' = Append(log, Entry("mutate", wk.idx, r.ok, r.fails, "zen"))
          /\ subFails + r.fails <= MaxFails
          /\ subFails' = subFails + r.fails
  /\ UNCHANGED <<args, body, cpc, ui, lastSeen>>
  /\ UNCHANGED unit

\* clean_vscode_databases(&directory, &tx) and the match on its result
ZDb ==
  /\ wpc = "z_db"
  /\ \E c \in DbCases :
       LET r == clean_vscode_databases(c, wk.idx)
           e == CleanerError("Database", "database cleaning")
           i == AfterAttempt(r.ok, wk.idx, wk.n)
       IN /\ WSend(r.events
                   \o (IF r.ok THEN <<>> ELSE <<DetailedError(e)>>)
                   \o <<ZenEvent("DatabaseCleaned", wk.idx, <<>>)>>)
          /\ wk' = [wk EXCEPT
                      !.result.errors = IF r.ok THEN @ ELSE Append(@, e),
                      !.idx = i]
          /\ wpc' = Loop(i, wk.n, "z_st", "z_sum")
          /\ log' = Append(log, Entry("sanitize", wk.idx, r.ok, r.fails, "zen"))
          /\ subFails + r.fails <= MaxFails
          /\ subFails' = subFails + r.fails
  /\ UNCHANGED <<args, body, cpc, ui, lastSeen>>
  /\ UNCHANGED unit

\* ErrorSummary(overall_error_collector) if it has errors
\* (result.errors stands for overall_error_collector)
ZSum ==
  /\ wpc = "z_sum"
  /\ WSend(IF wk.result.errors # <<>> THEN <<ErrorSummary(wk.result.errors)>> ELSE <<>>)
  /\ wpc' = "z_complete"
  /\ UNCHANGED <<args, body, cpc, ui, wk, log, subFails, lastSeen>>
  /\ UNCHANGED unit

ZComplete ==
  /\ wpc = "z_complete"
  /\ WSend(<<ZenEvent("OperationComplete", 0, <<>>)>>)
  /\ wpc' = "done"
  /\ UNCHANGED <<args, body, cpc, ui, wk, log, subFails, lastSeen>>
  /\ UNCHANGED unit

\* ------------------------------------------------------------------ specification
\* The state after ZenGarden::new(&args), before run.  ZenGarden::run spawns
\* zen_operations_with_cards; zen_operations has no caller in the sources, and
\* body = "zen_operations" runs it in that place (started by --augment, it
\* takes no cards) so that what is said of it can be checked.
Init ==
  /\ args \in [no_signout : BOOLEAN, no_terminate : BOOLEAN,
               augment : BOOLEAN, cursor : BOOLEAN]
  /\ body \in {"zen_operations_with_cards", "zen_operations"}
  /\ body = "zen_operations" => args.augment /\ ~args.cursor
  /\ cpc = "new"
  /\ ui = NewGarden(args)
  /\ chan = <<>>
  /\ wpc = "idle"
  /\ wk = NewWorker({})
  /\ log = <<>>
  /\ subFails = 0
  /\ sentStat = [nsent |-> 0, complete |-> 0, late |-> 0, summary |-> 0,
                 summaryErrs |-> 0, detailed |-> 0, totalSet |-> FALSE, total |-> 0,
                 located |-> 0, reported |-> 0]
  /\ lastSeen = [last |-> 0, disorder |-> FALSE]
  /\ platform = "-"
  /\ disk = <<>>
  /\ call = <<>>

Foreground ==
  \/ RunStart \/ KeyQuit \/ KeyEnter \/ KeySpace \/ KeyTab \/ KeyUp \/ KeyDown
  \/ HandleEvents

Worker ==
  \/ CStart \/ CTotal \/ CAug \/ ATerminate \/ AFind \/ ADb \/ ASt \/ AEmit
  \/ CCur \/ UTerminate \/ UFind \/ USt \/ UDb \/ UCfg \/ UEmit \/ CFin \/ CComplete
  \/ ZStart \/ ZFind \/ ZProcs \/ ZLocs \/ ZEmpty \/ ZEmptyComplete
  \/ ZSt \/ ZDb \/ ZSum \/ ZComplete

Next == Foreground \/ Worker

Spec == Init /\ [][Next]_vars

\* the runtime keeps running a spawned task whose next step can be taken
FairSpec == Spec /\ WF_vars(Worker)

\* and the loop of ZenGarden::run goes round: `crossterm::event::poll(timeout)`
\* returns after at most one tick (16 ms) and `rx.try_recv()` does not wait,
\* so a drain that has something to receive is not put off for ever
\* (HandleEvents can be taken exactly when run is looping and the channel
\* is not empty; the condition is weak fairness of HandleEvents.)
LiveSpec ==
  /\ Spec
  /\ WF_vars(Worker)
  /\ \/ []<>(~(cpc = "loop" /\ chan # <<>>))
     \/ []<><<HandleEvents>>_vars

\* ------------------------------------------------------------------ one library call alone
\* The engine above takes the outcome of update_vscode_storage and
\* clean_vscode_databases as an input.  What follows steps through one such
\* call, on one file, with the file's content and permissions in `disk`;
\* every fs / sqlite operation that can fail does so or not as an input.

\* the engine is not running
EngineIdle ==
  /\ args = [no_signout |-> FALSE, no_terminate |-> FALSE, augment |-> FALSE, cursor |-> FALSE]
  /\ body = "-"
  /\ cpc = "-"
  /\ ui = NewGarden(args)
  /\ chan = <<>>
  /\ wpc = "idle"
  /\ wk = NewWorker({})
  /\ log = <<>>
  /\ subFails = 0
  /\ sentStat = [nsent |-> 0, complete |-> 0, late |-> 0, summary |-> 0,
                 summaryErrs |-> 0, detailed |-> 0, totalSet |-> FALSE, total |-> 0,
                 located |-> 0, reported |-> 0]
  /\ lastSeen = [last |-> 0, disorder |-> FALSE]

Platforms == {"unix", "windows"}

\* ---- std::fs::Permissions
\* a unix mode of three octal digits
Oct(u, g, o) == 64 * u + 8 * g + o
WBit(d) == (d \div 2) % 2
WithW(d) == IF WBit(d) = 1 THEN d ELSE d + 2
WithoutW(d) == IF WBit(d) = 1 THEN d - 2 ELSE d
\* mode | 0o222 and mode & !0o222
AllW(m) == Oct(WithW(m \div 64), WithW((m \div 8) % 8), WithW(m % 8))
NoW(m) == Oct(WithoutW(m \div 64), WithoutW((m \div 8) % 8), WithoutW(m % 8))

\* Permissions::readonly: no write bit on unix, the read-only attribute elsewhere
readonly(perm) ==
  IF platform = "unix"
  THEN WBit(perm.mode \div 64) = 0 /\ WBit((perm.mode \div 8) % 8) = 0 /\ WBit(perm.mode % 8) = 0
  ELSE perm.attr_r

\* Permissions::set_readonly: clears / sets all write bits on unix
set_readonly(perm, ro) ==
  IF platform = "unix"
  THEN [perm EXCEPT !.mode = IF ro THEN NoW(@) ELSE AllW(@)]
  ELSE [perm EXCEPT !.attr_r = ro]

\* the permissions a file can have before a call
Perms ==
  IF platform = "unix"
  THEN {[mode |-> m, attr_r |-> FALSE] : m \in {Oct(6, 4, 4), Oct(4, 4, 4), Oct(4, 0, 0)}}
  ELSE {[mode |-> 0, attr_r |-> r] : r \in BOOLEAN}

\* the permissions of a file fs::write creates
NewFilePerm == [mode |-> IF platform = "unix" THEN Oct(6, 4, 4) ELSE 0, attr_r |-> FALSE]

\* what a file holds: the members of a JSON object in file order, or text
\* that is not JSON
Json(members) == [valid |-> TRUE, members |-> members, text |-> ""]
Text(t) == [valid |-> FALSE, members |-> <<>>, text |-> t]

NoFile == [exists |-> FALSE, perm |-> NewFilePerm, content |-> Text("")]

\* ---- FilePermissions
None == <<>>
Some(x) == <<x>>

\* backup_and_make_writable; metaOk, setOk: whether fs::metadata and
\* fs::set_permissions (with attrib -R on windows) succeed
backup_and_make_writable(f, metaOk, setOk) ==
  IF ~metaOk THEN [ok |-> FALSE, guard |-> None, file |-> f]
  ELSE LET was_readonly == readonly(f.perm)
           original_mode == IF platform = "unix" THEN f.perm.mode ELSE 0
       IN IF was_readonly /\ ~setOk THEN [ok |-> FALSE, guard |-> None, file |-> f]
          ELSE [ok    |-> TRUE,
                guard |-> Some([was_readonly |-> was_readonly, original_mode |-> original_mode]),
                file  |-> IF was_readonly
                          THEN [f EXCEPT !.perm = set_readonly(@, FALSE)] ELSE f]

\* restore; setOk: whether re-applying the recorded state succeeds.  The
\* result of set_permissions is tested and dropped; restore returns Ok(()).
restore(g, f, setOk) ==
  [ok   |-> TRUE,
   file |-> IF g.was_readonly /\ setOk
            THEN IF platform = "unix"
                 THEN [f EXCEPT !.perm.mode = g.original_mode]
                 ELSE [f EXCEPT !.perm = set_readonly(@, TRUE)]
            ELSE f]

\* ---- storage.json
TELEMETRY_KEYS ==
  {"telemetry.machineId", "telemetry.devDeviceId", "telemetry.macMachineId",
   "storage.serviceMachineId"}

\* an unrecognized key
OtherKey == "other.key"

\* the keys in the order of serde_json's Map (a BTreeMap: by bytes)
KeyOrder ==
  <<OtherKey, "storage.serviceMachineId", "telemetry.devDeviceId",
    "telemetry.macMachineId", "telemetry.machineId">>

Reverse(s) == [i \in 1..Len(s) |-> s[Len(s) + 1 - i]]

NotJson == Text("{")
Member(k, v) == <<k, v>>
\* the values a document holds before a call
OldValues == {"old", "older"}
TextOf(keys, order, old) ==
  Json([i \in 1..Len(SelectSeq(order, LAMBDA k : k \in keys)) |->
          Member(SelectSeq(order, LAMBDA k : k \in keys)[i], old)])
JsonTexts ==
  {TextOf(keys, KeyOrder, old) :
     keys \in SUBSET {KeyOrder[i] : i \in 1..Len(KeyOrder)}, old \in OldValues}
  \cup {TextOf(keys, Reverse(KeyOrder), old) :
     keys \in SUBSET {KeyOrder[i] : i \in 1..Len(KeyOrder)}, old \in OldValues}

\* serde_json::from_str::<Map<String, Value>>
from_str(content) ==
  LET ms == content.members IN
  IF ~content.valid THEN [ok |-> FALSE, data |-> [k \in {} |-> "old"]]
  ELSE [ok   |-> TRUE,
        data |-> [k \in {ms[i][1] : i \in 1..Len(ms)} |->
                    (CHOOSE m \in {ms[i] : i \in 1..Len(ms)} : m[1] = k)[2]]]

\* Map::new()
EmptyMap == [k \in {} |-> "old"]

\* serde_json::to_string_pretty of a Map: members in key order
to_string_pretty(data) ==
  LET keys == SelectSeq(KeyOrder, LAMBDA k : k \in DOMAIN data)
  IN Json([i \in 1..Len(keys) |-> Member(keys[i], data[keys[i]])])

\* what one call of Uuid::new_v4 can give
Draws == {"r1", "r2"}
NoDraws == [k \in TELEMETRY_KEYS |-> "-"]

\* the value generated for a key from its own Uuid::new_v4(): the uuid as
\* text, or the SHA-256 of its bytes in hexadecimal
NewValue(key, draw) ==
  IF key = "telemetry.devDeviceId" THEN "uuid " \o draw ELSE "sha256 " \o draw

\* the loop, were the new value made from the value it replaces
InsertKeysFromOld(data, draws) ==
  [k \in DOMAIN data \cup TELEMETRY_KEYS |->
     IF k \in TELEMETRY_KEYS
     THEN IF k \in DOMAIN data THEN "sha256 " \o data[k] ELSE NewValue(k, draws[k])
     ELSE data[k]]

\* `for &key in &TELEMETRY_KEYS { ... data.insert(key, new_value) }`
InsertKeys(data, draws) ==
  [k \in DOMAIN data \cup TELEMETRY_KEYS |->
     IF k \in TELEMETRY_KEYS THEN NewValue(k, draws[k]) ELSE data[k]]

\* a call of `fn` on file f.  `outer`: the call is made by
\* update_vscode_storage, on a location that is a file (is_file) or not;
\* `sub`, `errors`, `events`, `outer_result` are update_vscode_storage's
\* sub-results, its ErrorCollector, what it sent and what it returned.
NewCall(fn, f) ==
  [fn |-> fn, pc |-> "entry", before |-> f, guard |-> None, data |-> EmptyMap,
   draws |-> NoDraws, result |-> "-", error |-> "-", warnings |-> {},
   restoreFailed |-> FALSE,
   outer |-> FALSE, is_file |-> FALSE, sub |-> [json |-> "-", file |-> "-"],
   errors |-> <<>>, events |-> <<>>, outer_result |-> "-", pushed |-> FALSE]

Return(res) == [call EXCEPT !.pc = "returned", !.result = res]

\* update_storage_json: `if !storage_path.exists()`; nothing exists below
\* a location that is a file
SjExists ==
  /\ call.fn = "update_storage_json" /\ call.pc = "entry"
  /\ call' = IF disk.exists /\ ~call.is_file
             THEN [call EXCEPT !.pc = "guard"] ELSE Return("Ok")
  /\ UNCHANGED <<engine, platform, disk>>

\* `let _permissions = match FilePermissions::backup_and_make_writable(..)`
SjGuard ==
  /\ call.fn = "update_storage_json" /\ call.pc = "guard"
  /\ \E metaOk \in BOOLEAN, setOk \in BOOLEAN :
       LET r == backup_and_make_writable(disk, metaOk, setOk) IN
       /\ disk' = r.file
       /\ call' = [call EXCEPT !.pc = "read", !.guard = r.guard,
                               !.warnings = IF r.ok THEN @ ELSE @ \cup {"could not modify permissions"}]
  /\ UNCHANGED <<engine, platform>>

\* the same, were a document that does not parse an error
SjReadStrict ==
  /\ call.fn = "update_storage_json" /\ call.pc = "read"
  /\ \E readOk \in BOOLEAN :
       IF ~readOk THEN call' = [Return("Err") EXCEPT !.error = "failed to read storage.json"]
       ELSE LET p == from_str(disk.content) IN
            call' = IF p.ok THEN [call EXCEPT !.pc = "keys", !.data = p.data]
                    ELSE [Return("Err") EXCEPT !.error = "invalid json"]
  /\ UNCHANGED <<engine, platform, disk>>

\* fs::read_to_string, then serde_json::from_str
SjRead ==
  /\ call.fn = "update_storage_json" /\ call.pc = "read"
  /\ \E readOk \in BOOLEAN :
       IF ~readOk THEN call' = [Return("Err") EXCEPT !.error = "failed to read storage.json"]
       ELSE LET p == from_str(disk.content) IN
            call' = [call EXCEPT !.pc = "keys",
                                 !.data = IF p.ok THEN p.data ELSE EmptyMap,
                                 !.warnings = IF p.ok THEN @ ELSE @ \cup {"invalid json"}]
  /\ UNCHANGED <<engine, platform, disk>>

\* the loop over TELEMETRY_KEYS
SjKeys ==
  /\ call.fn = "update_storage_json" /\ call.pc = "keys"
  /\ \E draws \in [TELEMETRY_KEYS -> Draws] :
       call' = [call EXCEPT !.pc = "write", !.draws = draws, !.data = InsertKeys(@, draws)]
  /\ UNCHANGED <<engine, platform, disk>>

\* to_string_pretty (which does not fail on a map of strings), then
\* fs::write, which fails on a file that is still read-only
SjWrite ==
  /\ call.fn = "update_storage_json" /\ call.pc = "write"
  /\ \E writeOk \in BOOLEAN :
       IF writeOk /\ ~readonly(disk.perm)
       THEN /\ disk' = [disk EXCEPT !.content = to_string_pretty(call.data)]
            /\ call' = [call EXCEPT !.pc = "restore"]
       ELSE /\ call' = [Return("Err") EXCEPT !.error = "failed to write updated storage.json"]
            /\ UNCHANGED disk
  /\ UNCHANGED <<engine, platform>>

\* `if let Some(permissions) = _permissions { if let Err(e) = permissions.restore(..) {Warning} }`
SjRestore ==
  /\ call.fn = "update_storage_json" /\ call.pc = "restore"
  /\ IF call.guard = None
     THEN /\ call' = Return("Ok")
          /\ UNCHANGED disk
     ELSE \E setOk \in BOOLEAN :
            LET r == restore(call.guard[1], disk, setOk) IN
            /\ disk' = r.file
            /\ call' = [Return("Ok") EXCEPT
                          !.warnings = IF r.ok THEN @ ELSE @ \cup {"could not restore permissions"},
                          !.restoreFailed = call.guard[1].was_readonly /\ ~setOk]
  /\ UNCHANGED <<engine, platform>>

\* ---- the machine id file
\* the same, were the file left as fs::write made it
lock_file_permissions_skipped(f, metaOk, setOk, chmodOk) ==
  [ok |-> f.exists /\ metaOk /\ setOk, file |-> f]

\* lock_file_permissions; metaOk, setOk, chmodOk: whether fs::metadata,
\* fs::set_permissions and the chmod 444 / attrib +R command succeed
lock_file_permissions(f, metaOk, setOk, chmodOk) ==
  IF ~f.exists \/ ~metaOk \/ ~setOk THEN [ok |-> FALSE, file |-> f]
  ELSE [ok   |-> TRUE,
        file |-> IF platform = "unix" /\ chmodOk
                 THEN [f EXCEPT !.perm.mode = Oct(4, 4, 4)]
                 ELSE [f EXCEPT !.perm = set_readonly(@, TRUE)]]

\* update_machine_id_file: `Some(FilePermissions::backup_and_make_writable(file_path)?)`
MidGuard ==
  /\ call.fn = "update_machine_id_file" /\ call.pc = "entry"
  /\ IF ~disk.exists
     THEN /\ call' = [call EXCEPT !.pc = "write"]
          /\ UNCHANGED disk
     ELSE \E metaOk \in BOOLEAN, setOk \in BOOLEAN :
            LET r == backup_and_make_writable(disk, metaOk, setOk) IN
            /\ disk' = r.file
            /\ call' = IF r.ok THEN [call EXCEPT !.pc = "remove", !.guard = r.guard]
                       ELSE Return("Err")
  /\ UNCHANGED <<engine, platform>>

\* `let _ = fs::remove_file(file_path)`
MidRemove ==
  /\ call.fn = "update_machine_id_file" /\ call.pc = "remove"
  /\ \E removeOk \in BOOLEAN :
       disk' = IF removeOk THEN NoFile ELSE disk
  /\ call' = [call EXCEPT !.pc = "write"]
  /\ UNCHANGED <<engine, platform>>

\* `fs::write(file_path, &new_uuid)?`
MidWrite ==
  /\ call.fn = "update_machine_id_file" /\ call.pc = "write"
  /\ \E writeOk \in BOOLEAN :
       IF writeOk /\ (disk.exists => ~readonly(disk.perm))
       THEN /\ disk' = [exists  |-> TRUE,
                        perm    |-> IF disk.exists THEN disk.perm ELSE NewFilePerm,
                        content |-> Text("new uuid")]
            /\ call' = [call EXCEPT !.pc = "lock"]
       ELSE /\ call' = Return("Err")
            /\ UNCHANGED disk
  /\ UNCHANGED <<engine, platform>>

\* `lock_file_permissions(file_path)?`
MidLock ==
  /\ call.fn = "update_machine_id_file" /\ call.pc = "lock"
  /\ \E metaOk \in BOOLEAN, setOk \in BOOLEAN, chmodOk \in BOOLEAN :
       LET r == lock_file_permissions(disk, metaOk, setOk, chmodOk) IN
       /\ disk' = r.file
       /\ call' = Return(IF r.ok THEN "Ok" ELSE "Err")
  /\ UNCHANGED <<engine, platform>>

\* ---- update_vscode_storage
\* the same, were the first failure returned at once (`?`)
UvsAfterJsonAborts ==
  /\ call.outer /\ call.fn = "update_storage_json" /\ call.pc = "returned"
  /\ call' = IF call.result = "Err"
             THEN [call EXCEPT !.fn = "update_vscode_storage", !.sub.json = "Err",
                               !.outer_result = "Err"]
             ELSE IF call.is_file
             THEN [NewCall("update_machine_id_file", disk) EXCEPT
                     !.outer = TRUE, !.is_file = TRUE, !.sub = [call.sub EXCEPT !.json = "Ok"]]
             ELSE [call EXCEPT !.fn = "update_vscode_storage", !.pc = "summary",
                               !.sub.json = "Ok"]
  /\ UNCHANGED <<engine, platform, disk>>

\* `if let Err(e) = update_storage_json(directory, tx) { add_error; send
\* DetailedError }`, then `if directory.is_file()`
UvsAfterJson ==
  /\ call.outer /\ call.fn = "update_storage_json" /\ call.pc = "returned"
  /\ LET error  == CleanerError("FileSystem", "updating storage.json")
         failed == call.result = "Err"
         errors == IF failed THEN Append(call.errors, error) ELSE call.errors
         events == IF failed THEN Append(call.events, DetailedError(error)) ELSE call.events
         sub    == [call.sub EXCEPT !.json = call.result]
     IN call' = IF call.is_file
                THEN [NewCall("update_machine_id_file", disk) EXCEPT
                        !.outer = TRUE, !.is_file = TRUE, !.sub = sub,
                        !.errors = errors, !.events = events,
                        !.warnings = call.warnings]
                ELSE [call EXCEPT !.fn = "update_vscode_storage", !.pc = "summary",
                                  !.sub = sub, !.errors = errors, !.events = events]
  /\ UNCHANGED <<engine, platform, disk>>

\* `if let Err(e) = update_machine_id_file(directory, tx) { add_error; send
\* DetailedError }`
UvsAfterFile ==
  /\ call.outer /\ call.fn = "update_machine_id_file" /\ call.pc = "returned"
  /\ LET error  == CleanerError("FileSystem", "updating machine id file")
         failed == call.result = "Err"
     IN call' = [call EXCEPT
                   !.fn = "update_vscode_storage", !.pc = "summary",
                   !.sub.file = call.result,
                   !.errors = IF failed THEN Append(@, error) ELSE @,
                   !.events = IF failed THEN Append(@, DetailedError(error)) ELSE @]
  /\ UNCHANGED <<engine, platform, disk>>

\* `if error_collector.has_errors() { send ErrorSummary; return Err } Ok(())`
UvsSummary ==
  /\ call.fn = "update_vscode_storage" /\ call.pc = "summary"
  /\ call' = IF call.errors # <<>>
             THEN [call EXCEPT !.pc = "returned", !.outer_result = "Err",
                               !.events = Append(@, ErrorSummary(call.errors))]
             ELSE [call EXCEPT !.pc = "returned", !.outer_result = "Ok"]
  /\ UNCHANGED <<engine, platform, disk>>

\* augment.rs update_augment_storage, the match on one directory's result:
\* `Ok(_) => updated.push(directory...)`, `Err(_) => continue`
UasMatch ==
  /\ call.fn = "update_vscode_storage" /\ call.pc = "returned"
  /\ call' = [call EXCEPT !.pc = "matched", !.pushed = call.outer_result = "Ok"]
  /\ UNCHANGED <<engine, platform, disk>>

\* ---- cursor.rs generate_cursor_ids
CursorFields ==
  {"telemetry_machine_id", "telemetry_mac_machine_id", "telemetry_dev_device_id",
   "telemetry_sqm_id"}

\* four calls of Uuid::new_v4, one for each field
generate_cursor_ids(draws) ==
  [telemetry_machine_id     |-> "hex auth0|user_" \o "hex " \o draws["telemetry_machine_id"],
   telemetry_mac_machine_id |-> "uuid " \o draws["telemetry_mac_machine_id"],
   telemetry_dev_device_id  |-> "uuid " \o draws["telemetry_dev_device_id"],
   telemetry_sqm_id         |-> "{UUID " \o draws["telemetry_sqm_id"] \o "}"]

CursorIds ==
  /\ call.fn = "generate_cursor_ids" /\ call.pc = "entry"
  /\ \E draws \in [CursorFields -> Draws] :
       call' = [Return("Ok") EXCEPT !.draws = draws, !.data = generate_cursor_ids(draws)]
  /\ UNCHANGED <<engine, platform, disk>>

\* the files a storage call can find
StorageFiles(fn) ==
  {NoFile} \cup
  {[exists |-> TRUE, perm |-> p, content |-> c] :
     p \in Perms,
     c \in IF fn = "update_storage_json" THEN JsonTexts \cup {NotJson}
           ELSE {Text("old uuid"), Text("")}}

InitStorage ==
  /\ EngineIdle
  /\ platform \in Platforms
  /\ \/ \E fn \in {"update_storage_json", "update_machine_id_file"} :
          /\ disk \in StorageFiles(fn)
          /\ call = NewCall(fn, disk)
     \* update_vscode_storage on a directory, or on a file (which exists)
     \/ \E is_file \in BOOLEAN :
          /\ disk \in IF is_file THEN StorageFiles("update_machine_id_file") \ {NoFile}
                       ELSE StorageFiles("update_storage_json")
          /\ call = [NewCall("update_storage_json", disk) EXCEPT
                       !.outer = TRUE, !.is_file = is_file]
     \/ /\ disk = NoFile
        /\ call = NewCall("generate_cursor_ids", NoFile)

NextStorage ==
  \/ SjExists \/ SjGuard \/ SjRead \/ SjKeys \/ SjWrite \/ SjRestore
  \/ MidGuard \/ MidRemove \/ MidWrite \/ MidLock
  \/ UvsAfterJson \/ UvsAfterFile \/ UvsSummary \/ UasMatch
  \/ CursorIds

SpecStorage == InitStorage /\ [][NextStorage]_vars

\* ------------------------------------------------------------------ clean_vscode_databases alone
\* `disk` maps each of the two file names to a store: a file with
\* permissions and the rows of its ItemTable.

DbFiles == <<"state.vscdb", "state.vscdb.backup">>

\* ---- LIKE '%augment%'
Marker == <<"a", "u", "g", "m", "e", "n", "t">>

\* keys are sequences of characters
KeyLower == <<"x", ".", "a", "u", "g", "m", "e", "n", "t", ".", "y">>
KeyUpper == <<"A", "U", "G", "M", "E", "N", "T">>
KeyBroken == <<"a", "u", "g", "m", "e", "n", ".", "t">>
KeyOther == <<"x", ".", "y">>
ItemKeys == {KeyLower, KeyUpper, KeyBroken, KeyOther}

\* the comparison of one character, were it by bytes
NoFold(c) == c

\* sqlite's LIKE compares ASCII letters without regard to case
Fold(c) ==
  CASE c = "A" -> "a" [] c = "U" -> "u" [] c = "G" -> "g" [] c = "M" -> "m"
    [] c = "E" -> "e" [] c = "N" -> "n" [] c = "T" -> "t" [] c = "X" -> "x"
    [] c = "Y" -> "y" [] OTHER -> c

\* key LIKE '%augment%'
Like(key) ==
  \E i \in 0..(Len(key) - Len(Marker)) :
    \A j \in 1..Len(Marker) : Fold(key[i + j]) = Fold(Marker[j])

Row(key) == [key |-> key, value |-> "v"]

\* DELETE_QUERY applied to a table, were it `DELETE FROM ItemTable`
DeleteAll(rows) == {}

\* COUNT_QUERY and DELETE_QUERY applied to a table
CountMatching(rows) == Cardinality({r \in rows : Like(r.key)})
DeleteMatching(rows) == {r \in rows : ~Like(r.key)}

\* ---- DatabasePermissions (windows only)
db_backup_and_make_writable(f, metaOk, setOk) ==
  IF ~metaOk THEN [ok |-> FALSE, guard |-> None, file |-> f]
  ELSE LET was_readonly == readonly(f.perm)
       IN IF was_readonly /\ ~setOk THEN [ok |-> FALSE, guard |-> None, file |-> f]
          ELSE [ok    |-> TRUE,
                guard |-> Some([was_readonly |-> was_readonly]),
                file  |-> IF was_readonly
                          THEN [f EXCEPT !.perm = set_readonly(@, FALSE)] ELSE f]

db_restore(g, f, metaOk, setOk) ==
  IF ~g.was_readonly THEN [ok |-> TRUE, file |-> f]
  ELSE IF metaOk /\ setOk
       THEN [ok |-> TRUE, file |-> [f EXCEPT !.perm = set_readonly(@, TRUE)]]
       ELSE [ok |-> FALSE, file |-> f]

NoStore == [exists |-> FALSE, perm |-> NewFilePerm, rows |-> {}]

\* what is remembered of a call of clean_vscode_databases that has returned
NoCall == [res |-> [f \in 1..2 |-> "-"], removed |-> [f \in 1..2 |-> 0]]
Outcome(c) == [res |-> c.res, removed |-> c.removed]

\* a call of clean_vscode_databases, the nth on these files; prev: the one
\* before.  attempted, opened, guarded: the files clean_database_file was
\* called on, opened, opened with a guard held; guardFailed, envFailed,
\* restoreFailed: the files for which acquiring the guard, one of open /
\* count / delete, re-applying the protection failed as an input
NewDbCall(nth, d, prev) ==
  [fn |-> "clean_vscode_databases", pc |-> "exists", file |-> 1, nth |-> nth,
   prev |-> prev, before |-> d, guard |-> None, count |-> 0,
   attempted |-> {}, opened |-> {}, guarded |-> {}, removed |-> [f \in 1..2 |-> 0],
   res |-> [f \in 1..2 |-> "-"], errors |-> <<>>, events |-> <<>>,
   result |-> "-", warnings |-> {}, guardFailed |-> {}, envFailed |-> {},
   restoreFailed |-> {}]

Store == disk[call.file]

\* the same, were the first error returned at once (`clean_database_file(..)?`)
FileReturnsOrAborts(c, res) ==
  LET e == CleanerError("Database", DbFiles[c.file])
      c1 == [c EXCEPT !.res[c.file] = res, !.guard = None, !.count = 0]
  IN IF res = "Err"
     THEN [c1 EXCEPT !.pc = "returned", !.result = "Err", !.errors = Append(@, e),
                     !.events = Append(@, DetailedError(e))]
     ELSE IF c.file < Len(DbFiles)
          THEN [c1 EXCEPT !.file = @ + 1, !.pc = "exists"]
          ELSE [c1 EXCEPT !.pc = "returned", !.result = "Ok"]

\* clean_database_file returns res for the current file: clean_vscode_databases
\* records the error, goes to the next file, and after the last one sends the
\* summary and returns
FileReturns(c, res) ==
  LET e == CleanerError("Database", DbFiles[c.file])
      errs == IF res = "Err" THEN Append(c.errors, e) ELSE c.errors
      evs == IF res = "Err" THEN Append(c.events, DetailedError(e)) ELSE c.events
      c1 == [c EXCEPT !.res[c.file] = res, !.errors = errs, !.events = evs,
                      !.guard = None, !.count = 0]
  IN IF c.file < Len(DbFiles)
     THEN [c1 EXCEPT !.file = @ + 1, !.pc = "exists"]
     ELSE [c1 EXCEPT !.pc = "returned",
                     !.events = IF errs # <<>> THEN Append(evs, ErrorSummary(errs)) ELSE evs,
                     !.result = IF errs # <<>> THEN "Err" ELSE "Ok"]

\* `if !db_path.exists()`; on unix there is no guard and the store is opened next
DbExists ==
  /\ call.fn = "clean_vscode_databases" /\ call.pc = "exists"
  /\ call' = IF ~Store.exists
             THEN FileReturns([call EXCEPT !.attempted = @ \cup {call.file}], "Ok")
             ELSE [call EXCEPT !.attempted = @ \cup {call.file},
                               !.pc = IF platform = "windows" THEN "guard" ELSE "open"]
  /\ UNCHANGED <<engine, platform, disk>>

\* #[cfg(windows)] `let _permissions = match DatabasePermissions::backup_and_make_writable(..)`
DbGuard ==
  /\ call.fn = "clean_vscode_databases" /\ call.pc = "guard"
  /\ \E metaOk \in BOOLEAN, setOk \in BOOLEAN :
       LET r == db_backup_and_make_writable(Store, metaOk, setOk) IN
       /\ disk' = [disk EXCEPT ![call.file] = r.file]
       /\ call' = [call EXCEPT !.pc = "open", !.guard = r.guard,
                               !.warnings = IF r.ok THEN @ ELSE @ \cup {"could not modify permissions"},
                               !.guardFailed = IF r.ok THEN @ ELSE @ \cup {call.file}]
  /\ UNCHANGED <<engine, platform>>

\* Connection::open
DbOpen ==
  /\ call.fn = "clean_vscode_databases" /\ call.pc = "open"
  /\ \E openOk \in BOOLEAN :
       LET c == [call EXCEPT !.opened = @ \cup {call.file},
                             !.guarded = IF call.guard # None THEN @ \cup {call.file} ELSE @]
       IN call' = IF openOk THEN [c EXCEPT !.pc = "count"]
                  ELSE FileReturns([c EXCEPT !.envFailed = @ \cup {call.file}], "Err")
  /\ UNCHANGED <<engine, platform, disk>>

\* COUNT_QUERY, then `if count > 0 { .. } else { .. }`
DbCount ==
  /\ call.fn = "clean_vscode_databases" /\ call.pc = "count"
  /\ \E countOk \in BOOLEAN :
       call' = IF ~countOk
               THEN FileReturns([call EXCEPT !.envFailed = @ \cup {call.file}], "Err")
               ELSE LET count == CountMatching(Store.rows) IN
                    [call EXCEPT !.count = count,
                                 !.pc = IF count > 0 THEN "delete"
                                        ELSE IF platform = "windows" THEN "restore"
                                        ELSE "ok"]
  /\ UNCHANGED <<engine, platform, disk>>

\* DELETE_QUERY: fails on a store that is read-only, or as the engine reports
DbDelete ==
  /\ call.fn = "clean_vscode_databases" /\ call.pc = "delete"
  /\ \E deleteOk \in BOOLEAN :
       IF deleteOk /\ ~readonly(Store.perm)
       THEN /\ disk' = [disk EXCEPT ![call.file].rows = DeleteMatching(@)]
            /\ call' = [call EXCEPT !.removed[call.file] = call.count,
                                    !.pc = IF platform = "windows" THEN "restore" ELSE "ok"]
       ELSE /\ call' = FileReturns([call EXCEPT !.envFailed =
                                      IF deleteOk THEN @ ELSE @ \cup {call.file}], "Err")
            /\ UNCHANGED disk
  /\ UNCHANGED <<engine, platform>>

\* #[cfg(windows)] `if let Some(permissions) = _permissions { restore, or Warning }`
DbRestore ==
  /\ call.fn = "clean_vscode_databases" /\ call.pc = "restore"
  /\ IF call.guard = None
     THEN /\ call' = [call EXCEPT !.pc = "ok"]
          /\ UNCHANGED disk
     ELSE \E metaOk \in BOOLEAN, setOk \in BOOLEAN :
            LET r == db_restore(call.guard[1], Store, metaOk, setOk) IN
            /\ disk' = [disk EXCEPT ![call.file] = r.file]
            /\ call' = [call EXCEPT
                          !.pc = "ok",
                          !.warnings = IF r.ok THEN @ ELSE @ \cup {"could not restore permissions"},
                          !.restoreFailed = IF r.ok THEN @ ELSE @ \cup {call.file}]
  /\ UNCHANGED <<engine, platform>>

\* `Ok(())` of clean_database_file
DbOk ==
  /\ call.fn = "clean_vscode_databases" /\ call.pc = "ok"
  /\ call' = FileReturns(call, "Ok")
  /\ UNCHANGED <<engine, platform, disk>>

\* clean_vscode_databases is called once more on the same directory
DbAgain ==
  /\ call.fn = "clean_vscode_databases" /\ call.pc = "returned"
  /\ call.nth < MaxRuns
  /\ call' = NewDbCall(call.nth + 1, disk, Outcome(call))
  /\ UNCHANGED <<engine, platform, disk>>

\* the stores a call can find
Stores ==
  {NoStore} \cup
  {[exists |-> TRUE, perm |-> p, rows |-> {Row(k) : k \in ks}] :
     p \in {q \in Perms : q.mode # Oct(4, 0, 0)}, ks \in SUBSET ItemKeys}

InitDatabase ==
  /\ EngineIdle
  /\ platform \in Platforms
  /\ disk \in [1..2 -> Stores]
  /\ call = NewDbCall(1, disk, NoCall)

NextDatabase ==
  \/ DbExists \/ DbGuard \/ DbOpen \/ DbCount \/ DbDelete \/ DbRestore \/ DbOk
  \/ DbAgain

SpecDatabase == InitDatabase /\ [][NextDatabase]_vars

\* ------------------------------------------------------------------ discovery alone
\* find_vscode_storage_directories and find_augment_storage_directories
\* (the same code).  `disk` has the paths the base directories are written
\* as, the real directory each written path resolves to, and what exists
\* in each real directory.  A path is the sequence of its components and
\* starts with a written base path.

RealDirs == {"d1", "d2"}

\* the channel directories a base directory can hold, and the workspace
\* directories a workspaceStorage can hold (entries that are symbolic links
\* are dropped by the `ft.is_dir()` filters)
Channels == <<"Code">>
Workspaces == <<"ws1">>

global_patterns ==
  <<<<"User", "globalStorage">>, <<"data", "User", "globalStorage">>,
    <<"machineId">>, <<"data", "machineId">>>>

workspace_patterns ==
  <<<<"User", "workspaceStorage">>, <<"data", "User", "workspaceStorage">>>>

\* what can exist below a base directory
Below ==
  {<<"Code", "User", "globalStorage">>, <<"Code", "machineId">>,
   <<"Code", "User", "workspaceStorage", "ws1">>}

\* base_dirs: config_dir, home_dir, data_dir, home.join(".vscode"), as
\* written; config_dir and data_dir are the same path on macOS
base_dirs(sameConfigData) ==
  <<"/config", "/home", IF sameConfigData THEN "/config" ELSE "/data", "/home/.vscode">>

WrittenBases == {"/config", "/home", "/data", "/home/.vscode"}

\* fs::canonicalize: the real directory in place of the written base path
Canonical(path) == <<disk.resolve[Head(path)]>> \o Tail(path)

\* Path::exists
Exists(path) ==
  /\ disk.resolve[Head(path)] # "none"
  /\ Len(path) > 1 => \E rel \in disk.tree[disk.resolve[Head(path)]] :
                        Len(rel) >= Len(path) - 1 /\ SubSeq(rel, 1, Len(path) - 1) = Tail(path)

\* the concatenation of a sequence of sequences
RECURSIVE Flatten(_)
Flatten(ss) == IF ss = <<>> THEN <<>> ELSE Head(ss) \o Flatten(Tail(ss))

\* the real directories fs::read_dir can be refused on (no read permission)
DeniedDirs == {<<"d1">>, <<"d1", "Code", "User", "workspaceStorage">>}

\* fs::read_dir filtered to directories: the names from `names` under `dir`;
\* nothing when read_dir returns Err (`let Ok(entries) = ... else { return
\* Vec::new() }`)
Entries(dir, names) ==
  IF Canonical(dir) \in disk.denied THEN <<>>
  ELSE SelectSeq(names, LAMBDA n : Exists(Append(dir, n)))

\* scan_storage
scan_storage(base_dir) ==
  Flatten([c \in 1..Len(Entries(<<base_dir>>, Channels)) |->
    LET path == <<base_dir, Entries(<<base_dir>>, Channels)[c]>>
        global_paths == [p \in 1..Len(global_patterns) |-> path \o global_patterns[p]]
        workspace_paths ==
          Flatten([p \in 1..Len(workspace_patterns) |->
            LET workspace_base == path \o workspace_patterns[p]
                found == Entries(workspace_base, Workspaces)
            IN IF ~Exists(workspace_base) THEN <<>>
               ELSE [w \in 1..Len(found) |-> Append(workspace_base, found[w])]])
    IN global_paths \o workspace_paths])

\* the filter without its `path.exists()` test
RECURSIVE RetainUnchecked(_, _, _)
RetainUnchecked(cs, seen, out) ==
  IF cs = <<>> THEN [seen |-> seen, out |-> out]
  ELSE IF Head(cs) \notin seen
       THEN RetainUnchecked(Tail(cs), seen \cup {Head(cs)}, Append(out, Head(cs)))
       ELSE RetainUnchecked(Tail(cs), seen, out)

\* `.filter(|path| path.exists() && seen.insert(path.clone()))` over the
\* candidates cs, from the set seen and the result out so far
RECURSIVE Retain(_, _, _)
Retain(cs, seen, out) ==
  IF cs = <<>> THEN [seen |-> seen, out |-> out]
  ELSE IF Exists(Head(cs)) /\ Head(cs) \notin seen
       THEN Retain(Tail(cs), seen \cup {Head(cs)}, Append(out, Head(cs)))
       ELSE Retain(Tail(cs), seen, out)

\* one base directory goes through the iterator chain
DirScan ==
  /\ call.fn \in {"find_vscode_storage_directories", "find_augment_storage_directories"}
  /\ call.pc = "scan"
  /\ LET r == Retain(scan_storage(disk.base_dirs[call.next]), call.seen, call.out)
     IN call' = [call EXCEPT !.seen = r.seen, !.out = r.out,
                             !.next = @ + 1,
                             !.pc = IF call.next = Len(disk.base_dirs) THEN "collect" ELSE "scan"]
  /\ UNCHANGED <<engine, platform, disk>>

\* `.collect()`
DirCollect ==
  /\ call.fn \in {"find_vscode_storage_directories", "find_augment_storage_directories"}
  /\ call.pc = "collect"
  /\ call' = [call EXCEPT !.pc = "returned", !.result = "Ok"]
  /\ UNCHANGED <<engine, platform, disk>>

InitDiscovery ==
  /\ EngineIdle
  /\ platform \in Platforms
  /\ \E same \in BOOLEAN, resolve \in [WrittenBases -> RealDirs \cup {"none"}],
        tree \in [RealDirs -> SUBSET Below], denied \in SUBSET DeniedDirs :
       /\ same => resolve["/data"] = "none"
       /\ disk = [base_dirs |-> base_dirs(same), resolve |-> resolve, tree |-> tree,
                  denied |-> denied]
  /\ \E fn \in {"find_vscode_storage_directories", "find_augment_storage_directories"} :
       call = [fn |-> fn, pc |-> "scan", next |-> 1, seen |-> {}, out |-> <<>>,
               result |-> "-"]

NextDiscovery == DirScan \/ DirCollect

SpecDiscovery == InitDiscovery /\ [][NextDiscovery]_vars

\* ------------------------------------------------------------------ ErrorCollector alone
\* utils.rs ErrorCollector: `call` is the collector, with the calls made
\* on it so far in `history`.

CollectedErrors ==
  {CleanerError("FileSystem", "updating storage.json"),
   CleanerError("Database", "database cleaning")}
CollectedWarnings == {"could not modify permissions", "invalid json"}

\* ErrorCollector::new
NewCollector == [fn |-> "ErrorCollector", errors |-> <<>>, warnings |-> <<>>, history |-> <<>>]

\* one call on the collector: which method, and its argument
CallOf(method, error, warning) == [method |-> method, error |-> error, warning |-> warning]

\* add_error, were an error the collector already holds not pushed again
add_error_once(c, error) ==
  IF \E i \in 1..Len(c.errors) : c.errors[i] = error THEN c
  ELSE [c EXCEPT !.errors = Append(@, error)]

\* add_error: self.errors.push(error)
add_error(c, error) == [c EXCEPT !.errors = Append(@, error)]

\* add_warning: self.warnings.push(warning)
add_warning(c, warning) == [c EXCEPT !.warnings = Append(@, warning)]

has_errors(c) == c.errors # <<>>
has_warnings(c) == c.warnings # <<>>
error_count(c) == Len(c.errors)
warning_count(c) == Len(c.warnings)

\* get_summary: the format string of the arm taken, and its arguments
get_summary(c) ==
  LET e == error_count(c)
      w == warning_count(c)
  IN CASE e = 0 /\ w = 0 -> [text |-> "all operations completed successfully", args |-> <<>>]
       [] e = 0 /\ w # 0 -> [text |-> "completed with {} warnings", args |-> <<w>>]
       [] e # 0 /\ w = 0 -> [text |-> "completed with {} errors", args |-> <<e>>]
       [] OTHER          -> [text |-> "completed with {} errors and {} warnings",
                             args |-> <<e, w>>]

AddError ==
  /\ call.fn = "ErrorCollector"
  /\ Len(call.history) < MaxCalls
  /\ \E error \in CollectedErrors :
       call' = [add_error(call, error) EXCEPT
                  !.history = Append(@, CallOf("add_error", error, ""))]
  /\ UNCHANGED <<engine, platform, disk>>

AddWarning ==
  /\ call.fn = "ErrorCollector"
  /\ Len(call.history) < MaxCalls
  /\ \E warning \in CollectedWarnings :
       call' = [add_warning(call, warning) EXCEPT
                  !.history = Append(@, CallOf("add_warning",
                                               CleanerError("-", "-"), warning))]
  /\ UNCHANGED <<engine, platform, disk>>

InitCollector ==
  /\ EngineIdle
  /\ platform = "-"
  /\ disk = <<>>
  /\ call = NewCollector

NextCollector == AddError \/ AddWarning

SpecCollector == InitCollector /\ [][NextCollector]_vars

\* ------------------------------------------------------------------ process termination alone
\* `disk` is the process table: for each pid a process (name, executable
\* path, command line, parent) or nothing, and the set of processes that
\* have been killed.  `call` is one call of a termination function.

Pids == {"p1", "p2", "p3"}
\* std::process::id()
CurrentPid == "p1"
NoPid == "none"

\* ---- str
\* char::to_ascii_lowercase / the ASCII part of str::to_lowercase
LowerChar(c) ==
  CASE c = "A" -> "a" [] c = "B" -> "b" [] c = "C" -> "c" [] c = "D" -> "d"
    [] c = "E" -> "e" [] c = "F" -> "f" [] c = "G" -> "g" [] c = "H" -> "h"
    [] c = "I" -> "i" [] c = "J" -> "j" [] c = "K" -> "k" [] c = "L" -> "l"
    [] c = "M" -> "m" [] c = "N" -> "n" [] c = "O" -> "o" [] c = "P" -> "p"
    [] c = "Q" -> "q" [] c = "R" -> "r" [] c = "S" -> "s" [] c = "T" -> "t"
    [] c = "U" -> "u" [] c = "V" -> "v" [] c = "W" -> "w" [] c = "X" -> "x"
    [] c = "Y" -> "y" [] c = "Z" -> "z" [] OTHER -> c

RECURSIVE to_lowercase(_)
to_lowercase(str) ==
  IF str = "" THEN ""
  ELSE LowerChar(SubSeq(str, 1, 1)) \o to_lowercase(SubSeq(str, 2, Len(str)))

\* str::contains
contains(str, pat) ==
  \E i \in 0..(Len(str) - Len(pat)) : SubSeq(str, i + 1, i + Len(pat)) = pat

\* str::eq_ignore_ascii_case
eq_ignore_ascii_case(a, b) == to_lowercase(a) = to_lowercase(b)

VSCODE_PROCESSES ==
  {"code", "code.exe", "Code", "Code.exe", "code-insiders", "code-insiders.exe",
   "cursor", "cursor.exe", "Cursor", "Cursor.exe", "windsurf", "windsurf.exe",
   "trae", "trae.exe"}

\* `let is_vscode = ...` of terminate_vscode_processes and of
\* discover_vscode_processes (the same expression); pid is not looked at
is_vscode(pid, process) ==
  LET name_lower == to_lowercase(process.name)
      cmd_lower  == to_lowercase(process.cmd)
      exe_lower  == to_lowercase(to_lowercase(process.exe))
  IN \/ \E vs \in VSCODE_PROCESSES : eq_ignore_ascii_case(process.name, vs)
     \/ contains(cmd_lower, "vscode")
     \/ contains(exe_lower, "microsoft vs code")
     \/ contains(exe_lower, "visual studio code")
     \/ \E sub \in {"cursor", "code-insiders", "windsurf", "trae", "vscodium"} :
          contains(name_lower, sub)
     \/ \E sub \in {"/code", "\\code.exe", "/cursor", "\\cursor.exe"} :
          contains(exe_lower, sub)
     \/ (contains(exe_lower, "code") /\ contains(exe_lower, "electron"))
     \/ contains(exe_lower, ".app/contents/macos/electron")

\* ---- the process table
Process(name, exe, cmd, parent) ==
  [present |-> TRUE, name |-> name, exe |-> exe, cmd |-> cmd, parent |-> parent]
NoProcess == [present |-> FALSE, name |-> "", exe |-> "", cmd |-> "", parent |-> NoPid]

\* the tool itself, installed somewhere, or run from a checkout of its
\* repository
CurrentProcesses(parent) ==
  {Process("cleaner", "/opt/bin/cleaner", "cleaner --augment", parent),
   Process("cleaner", "/home/u/vscode-telemetry-cleaner/target/release/cleaner",
           "/home/u/vscode-telemetry-cleaner/target/release/cleaner --augment", parent)}

\* an editor, an editor's extension host, a shell
OtherProcesses(parent) ==
  {Process("Code", "/usr/share/code/code", "/usr/share/code/code --unity-launch", parent),
   Process("node", "/usr/bin/node", "node /home/u/.vscode/extensions/host.js", parent),
   Process("bash", "/bin/bash", "bash", parent)}

\* the processes of table t that are pid or descend from it
RECURSIVE TreeOf(_, _, _)
TreeOf(t, pids, k) ==
  IF k = 0 THEN pids
  ELSE TreeOf(t, pids \cup {p \in Pids : t[p].present /\ t[p].parent \in pids}, k - 1)

\* no process is its own ancestor
Forest(t) == \A p \in Pids : t[p].present => t[p].parent \notin TreeOf(t, {p}, Cardinality(Pids))

\* kill_tree(pid); ok: whether the signals could be sent.  Err when there
\* is no such process any more.
kill_tree(pid, ok) ==
  IF pid \in disk.dead \/ ~ok THEN [ok |-> FALSE, dead |-> disk.dead]
  ELSE [ok |-> TRUE, dead |-> disk.dead \cup TreeOf(disk.table, {pid}, Cardinality(Pids))]

\* one attempt to terminate `target`, and how it ended
Attempt(target, ok) == [target |-> target, ok |-> ok]

\* a call of `fn`: the processes still to look at, those selected, the
\* attempts made, the targets announced before an attempt, and the targets
\* reported as terminated / as not terminated after one
NewProcessCall(fn, todo) ==
  [fn |-> fn, pc |-> "loop", todo |-> todo, selected |-> {}, attempts |-> <<>>,
   announced |-> {}, terminated |-> {}, failed |-> {}]

\* the caller is among the killed: nothing more happens in it
Killed(c) == IF CurrentPid \in disk'.dead THEN [c EXCEPT !.pc = "killed"] ELSE c

\* terminate_vscode_processes, one iteration of the loop over
\* System::new_all().processes() (a HashMap: any order); a process that is
\* not matched is passed over
TvpNext ==
  /\ call.fn = "terminate_vscode_processes" /\ call.pc = "loop"
  /\ \E pid \in call.todo :
       LET process == disk.table[pid]
           rest == call.todo \ {pid}
           done == IF rest = {} THEN "returned" ELSE "loop"
       IN IF ~is_vscode(pid, process)
          THEN /\ call' = [call EXCEPT !.todo = rest, !.pc = done]
               /\ UNCHANGED disk
          ELSE \E ok1 \in BOOLEAN, ok2 \in BOOLEAN :
                 LET k1 == IF process.parent # NoPid
                           THEN kill_tree(process.parent, ok1)
                           ELSE [ok |-> FALSE, dead |-> disk.dead]
                     d1 == [disk EXCEPT !.dead = k1.dead]
                     k2 == IF pid \in d1.dead \/ ~ok2
                           THEN [ok |-> FALSE, dead |-> d1.dead]
                           ELSE [ok |-> TRUE,
                                 dead |-> d1.dead \cup TreeOf(disk.table, {pid}, Cardinality(Pids))]
                 IN /\ process.parent = NoPid => ok1
                    /\ disk' = [disk EXCEPT !.dead = k2.dead]
                    /\ call' = Killed([call EXCEPT
                         !.todo = rest, !.pc = done,
                         !.selected = @ \cup {pid},
                         !.announced = @ \cup {pid},
                         !.attempts =
                            (IF process.parent # NoPid
                             THEN Append(@, Attempt(process.parent, k1.ok)) ELSE @)
                            \o <<Attempt(pid, k2.ok)>>])
  /\ UNCHANGED <<engine, platform>>

\* discover_vscode_processes, one iteration of its loop
DvpNext ==
  /\ call.fn = "discover_vscode_processes" /\ call.pc = "loop"
  /\ \E pid \in call.todo :
       LET rest == call.todo \ {pid} IN
       call' = [call EXCEPT
                  !.todo = rest,
                  !.pc = IF rest = {} THEN "returned" ELSE "loop",
                  !.selected = IF is_vscode(pid, disk.table[pid]) THEN @ \cup {pid} ELSE @]
  /\ UNCHANGED <<engine, platform, disk>>

\* ---- terminate_augment_processes, terminate_cursor_processes
\* the names gone through (the first two of each list; the loop body is
\* the same for every name)
process_names == <<"code", "Code">>

\* what `pgrep name` then `pkill -f name` (tasklist, taskkill /F /IM) can
\* do: the first command cannot be run, finds nothing, or finds a process;
\* then the second cannot be run, ends with status 0, or ends with a
\* status that is not 0 (nothing was killed: not permitted)
NameCases == {"pgrep error", "none found", "pkill error", "pkill 0", "pkill 1"}

\* terminate_augment_processes, one name: `if result.is_ok() {
\* terminated.push(..) }`, result being whether pkill could be run
TapNext ==
  /\ call.fn = "terminate_augment_processes" /\ call.pc = "loop"
  /\ \E c \in NameCases :
       LET name == process_names[call.todo]
           attempted == c \in {"pkill error", "pkill 0", "pkill 1"}
       IN call' = [call EXCEPT
                     !.todo = @ + 1,
                     !.pc = IF call.todo = Len(process_names) THEN "returned" ELSE "loop",
                     !.selected = IF attempted THEN @ \cup {name} ELSE @,
                     !.attempts = IF attempted THEN Append(@, Attempt(name, c = "pkill 0")) ELSE @,
                     !.terminated = IF c \in {"pkill 0", "pkill 1"} THEN @ \cup {name} ELSE @]
  /\ UNCHANGED <<engine, platform, disk>>

\* terminate_cursor_processes, one name: `let _ = ..pkill..; terminated =
\* true` (the one flag stands for every name)
TcpNext ==
  /\ call.fn = "terminate_cursor_processes" /\ call.pc = "loop"
  /\ \E c \in NameCases :
       LET name == process_names[call.todo]
           attempted == c \in {"pkill error", "pkill 0", "pkill 1"}
       IN call' = [call EXCEPT
                     !.todo = @ + 1,
                     !.pc = IF call.todo = Len(process_names) THEN "returned" ELSE "loop",
                     !.selected = IF attempted THEN @ \cup {name} ELSE @,
                     !.attempts = IF attempted THEN Append(@, Attempt(name, c = "pkill 0")) ELSE @,
                     !.terminated = IF attempted THEN @ \cup {name} ELSE @]
  /\ UNCHANGED <<engine, platform, disk>>

\* the process tables a call can find: the caller, and up to two other
\* processes, in any parent relation without a cycle
ProcessTables ==
  {t \in [Pids -> {NoProcess}
                   \cup UNION {CurrentProcesses(parent) \cup OtherProcesses(parent) :
                                 parent \in Pids \cup {NoPid}}] :
     /\ t[CurrentPid] \in UNION {CurrentProcesses(parent) : parent \in Pids \cup {NoPid}}
     /\ \A p \in Pids \ {CurrentPid} :
          t[p] \notin UNION {CurrentProcesses(parent) : parent \in Pids \cup {NoPid}}
     /\ \A p \in Pids : t[p].present /\ t[p].parent # NoPid => t[t[p].parent].present
     /\ Forest(t)}

InitProcess ==
  /\ EngineIdle
  /\ platform = "-"
  /\ \/ /\ \E t \in ProcessTables : disk = [table |-> t, dead |-> {}]
        /\ \E fn \in {"terminate_vscode_processes", "discover_vscode_processes"} :
             call = NewProcessCall(fn, {p \in Pids : disk.table[p].present})
     \/ /\ disk = [table |-> [p \in Pids |-> NoProcess], dead |-> {}]
        /\ \E fn \in {"terminate_augment_processes", "terminate_cursor_processes"} :
             call = NewProcessCall(fn, 1)

NextProcess == TvpNext \/ DvpNext \/ TapNext \/ TcpNext

SpecProcess == InitProcess /\ [][NextProcess]_vars

\* ------------------------------------------------------------------ main.rs run alone
\* The standalone entry point.  `disk` is the sequence of the paths
\* find_dirs returns, each with what update_storage and clean_db find
\* there; `call` is the call of run, with the steps it has made.

\* what a path returned by find_dirs can be: the machineId file, writable
\* or read-only (there is nothing below a file), or a directory with or
\* without storage.json and state.vscdb
MainLocations ==
  {[is_file |-> TRUE, machine_id |-> m, storage_json |-> "absent", state_vscdb |-> "absent"] :
     m \in {"writable", "readonly"}}
  \cup
  {[is_file |-> FALSE, machine_id |-> "-", storage_json |-> j, state_vscdb |-> d] :
     j \in {"absent", "writable", "readonly"}, d \in {"absent", "opens", "locked"}}

\* update_storage: Err from `fs::write(..)?` on a read-only file; a
\* document that cannot be read or parsed is replaced (unwrap_or_default)
update_storage(loc) ==
  IF loc.storage_json = "readonly" THEN [ok |-> FALSE, loc |-> loc]
  ELSE IF loc.is_file
       THEN IF loc.machine_id = "readonly" THEN [ok |-> FALSE, loc |-> loc]
            ELSE [ok |-> TRUE, loc |-> [loc EXCEPT !.machine_id = "readonly"]]
       ELSE [ok |-> TRUE, loc |-> loc]

\* clean_db: Ok(()) without state.vscdb, Err from `Connection::open(..)?`
\* or `conn.execute(..)?`
clean_db(loc) == [ok |-> loc.state_vscdb # "locked", loc |-> loc]

\* one step of run on path number i
MainStep(i, step, ok) == [loc |-> i, step |-> step, ok |-> ok]

\* `kill_vscode()?`: every path of kill_vscode returns Ok(())
MainKill ==
  /\ call.fn = "run" /\ call.pc = "kill_vscode"
  /\ call' = [call EXCEPT !.pc = "find_dirs"]
  /\ UNCHANGED <<engine, platform, disk>>

\* `let dirs = find_dirs(); if dirs.is_empty() { return Err(..) }`
MainFind ==
  /\ call.fn = "run" /\ call.pc = "find_dirs"
  /\ call' = IF disk = <<>>
             THEN [call EXCEPT !.pc = "returned", !.result = "Err"]
             ELSE [call EXCEPT !.pc = "update_storage", !.idx = 1]
  /\ UNCHANGED <<engine, platform, disk>>

\* `update_storage(&dir)?`
MainUpdate ==
  /\ call.fn = "run" /\ call.pc = "update_storage"
  /\ LET r == update_storage(disk[call.idx]) IN
       /\ disk' = [disk EXCEPT ![call.idx] = r.loc]
       /\ call' = [call EXCEPT
                     !.steps = Append(@, MainStep(call.idx, "update_storage", r.ok)),
                     !.pc = IF r.ok THEN "clean_db" ELSE "returned",
                     !.result = IF r.ok THEN @ ELSE "Err"]
  /\ UNCHANGED <<engine, platform>>

\* `clean_db(&dir)?`, then the next path, or `Ok(())` after the last
MainClean ==
  /\ call.fn = "run" /\ call.pc = "clean_db"
  /\ LET r == clean_db(disk[call.idx]) IN
       /\ disk' = [disk EXCEPT ![call.idx] = r.loc]
       /\ call' = [call EXCEPT
                     !.steps = Append(@, MainStep(call.idx, "clean_db", r.ok)),
                     !.idx = IF r.ok THEN @ + 1 ELSE @,
                     !.pc = IF r.ok /\ call.idx < Len(disk) THEN "update_storage"
                            ELSE "returned",
                     !.result = IF ~r.ok THEN "Err"
                                ELSE IF call.idx < Len(disk) THEN @ ELSE "Ok"]
  /\ UNCHANGED <<engine, platform>>

InitMain ==
  /\ EngineIdle
  /\ platform = "-"
  /\ \E n \in 0..MaxLocs : disk \in [1..n -> MainLocations]
  /\ call = [fn |-> "run", pc |-> "kill_vscode", idx |-> 0, steps |-> <<>>, result |-> "-"]

NextMain == MainKill \/ MainFind \/ MainUpdate \/ MainClean

SpecMain == InitMain /\ [][NextMain]_vars

\* ------------------------------------------------------------------ clean_cursor_ide alone
\* cursor.rs clean_cursor_ide from its step 2 on (step 1 terminates
\* processes and touches no file), as far as Cursor's own storage.json goes.
\* `disk`: home (dirs::home_dir / config_dir gave a path), dir (the
\* globalStorage directory exists), exists and content (its storage.json),
\* backup_dir (globalStorage/backups exists), backups (what the files in it
\* hold).  `call`: position, the document as it was at entry (history), the
\* generated CursorConfig, the directories found, and the result so far.

\* the keys of the rewritten document in the order of serde_json's Map
CursorKeyOrder ==
  <<"lastModified", OtherKey, "storage.serviceMachineId", "telemetry.devDeviceId",
    "telemetry.macMachineId", "telemetry.machineId", "telemetry.sqmId">>

\* serde_json::to_string_pretty of the Value clean_cursor_config built
value_to_string_pretty(data) ==
  LET keys == SelectSeq(CursorKeyOrder, LAMBDA k : k \in DOMAIN data)
  IN Json([i \in 1..Len(keys) |-> Member(keys[i], data[keys[i]])])

\* the five obj.insert of clean_cursor_config
insert_cursor_config(data, config) ==
  LET new == [k \in {"telemetry.machineId", "telemetry.macMachineId",
                     "telemetry.devDeviceId", "telemetry.sqmId", "lastModified"} |->
                CASE k = "telemetry.machineId"    -> config.telemetry_machine_id
                  [] k = "telemetry.macMachineId" -> config.telemetry_mac_machine_id
                  [] k = "telemetry.devDeviceId"  -> config.telemetry_dev_device_id
                  [] k = "telemetry.sqmId"        -> config.telemetry_sqm_id
                  [] k = "lastModified"           -> "unix seconds"]
  IN [k \in DOMAIN data \cup DOMAIN new |-> IF k \in DOMAIN new THEN new[k] ELSE data[k]]

\* the Err arm of step 6's match, and the return of clean_cursor_config
ConfigReturn(res) ==
  [call EXCEPT !.pc = "done",
               !.config_updated = @ \/ res = "Ok(true)",
               !.errors = IF res = "Err" THEN Append(@, "update_cursor_config") ELSE @,
               !.config_result = res]

\* step 2: generate_cursor_ids
CiIds ==
  /\ call.fn = "clean_cursor_ide" /\ call.pc = "ids"
  /\ \E draws \in [CursorFields -> Draws] :
       call' = [call EXCEPT !.pc = "find", !.config = generate_cursor_ids(draws)]
  /\ UNCHANGED <<engine, platform, disk>>

\* step 3: find_cursor_storage_directories pushes globalStorage when it
\* exists (the workspace directories it adds do not hold this document)
CiFind ==
  /\ call.fn = "clean_cursor_ide" /\ call.pc = "find"
  /\ call' = [call EXCEPT !.pc = "storage", !.dirs = disk.home /\ disk.dir]
  /\ UNCHANGED <<engine, platform, disk>>

\* step 4: update_vscode_storage on globalStorage, a directory: its
\* update_storage_json returns Ok when there is no storage.json, rewrites
\* the document in place when reading and writing succeed, and otherwise
\* returns Err and leaves it
CiStorage ==
  /\ call.fn = "clean_cursor_ide" /\ call.pc = "storage"
  /\ IF ~call.dirs
     THEN /\ call' = [call EXCEPT !.pc = "databases"]
          /\ UNCHANGED disk
     ELSE IF ~disk.exists
     THEN /\ call' = [call EXCEPT !.pc = "databases", !.config_updated = TRUE]
          /\ UNCHANGED disk
     ELSE \E readOk \in BOOLEAN, writeOk \in BOOLEAN, draws \in [TELEMETRY_KEYS -> Draws] :
            IF readOk /\ writeOk
            THEN LET p == from_str(disk.content) IN
                 /\ disk' = [disk EXCEPT !.content =
                               to_string_pretty(InsertKeys(IF p.ok THEN p.data ELSE EmptyMap, draws))]
                 /\ call' = [call EXCEPT !.pc = "databases", !.config_updated = TRUE]
            ELSE /\ call' = [call EXCEPT !.pc = "databases",
                                         !.errors = Append(@, "update_storage")]
                 /\ UNCHANGED disk
  /\ UNCHANGED <<engine, platform>>

\* step 5: clean_vscode_databases on each directory found, unless
\* no_signout; it works on the store files only
CiDatabases ==
  /\ call.fn = "clean_cursor_ide" /\ call.pc = "databases"
  /\ \E no_signout \in BOOLEAN, ok \in BOOLEAN :
       call' = [call EXCEPT !.pc = "config",
                            !.errors = IF ~no_signout /\ call.dirs /\ ~ok
                                       THEN Append(@, "clean_databases") ELSE @]
  /\ UNCHANGED <<engine, platform, disk>>

\* step 6, clean_cursor_config: `None => return Ok(false)`,
\* `if !storage_path.exists() { return Ok(false) }`
CcExists ==
  /\ call.fn = "clean_cursor_ide" /\ call.pc = "config"
  /\ call' = IF disk.home /\ disk.exists
             THEN [call EXCEPT !.pc = "backup_dir"] ELSE ConfigReturn("Ok(false)")
  /\ UNCHANGED <<engine, platform, disk>>

\* `if !backup_dir.exists() { fs::create_dir_all(&backup_dir)?; }`
CcBackupDir ==
  /\ call.fn = "clean_cursor_ide" /\ call.pc = "backup_dir"
  /\ IF disk.backup_dir
     THEN /\ call' = [call EXCEPT !.pc = "copy"]
          /\ UNCHANGED disk
     ELSE \E createOk \in BOOLEAN :
            IF createOk
            THEN /\ disk' = [disk EXCEPT !.backup_dir = TRUE]
                 /\ call' = [call EXCEPT !.pc = "copy"]
            ELSE /\ call' = ConfigReturn("Err")
                 /\ UNCHANGED disk
  /\ UNCHANGED <<engine, platform>>

\* `fs::copy(&storage_path, &backup_path)?`: the backup file holds the
\* document as it is now; a copy that fails may leave a truncated file
CcCopy ==
  /\ call.fn = "clean_cursor_ide" /\ call.pc = "copy"
  /\ \E copyOk \in BOOLEAN, truncated \in BOOLEAN :
       IF copyOk
       THEN /\ disk' = [disk EXCEPT !.backups = @ \cup {disk.content}]
            /\ call' = [call EXCEPT !.pc = "read"]
       ELSE /\ disk' = [disk EXCEPT !.backups = IF truncated THEN @ \cup {Text("")} ELSE @]
            /\ call' = ConfigReturn("Err")
  /\ UNCHANGED <<engine, platform>>

\* `fs::read_to_string(&storage_path)?`, from_str with
\* `unwrap_or_else(|_| json!({}))`, the inserts
CcRead ==
  /\ call.fn = "clean_cursor_ide" /\ call.pc = "read"
  /\ \E readOk \in BOOLEAN :
       call' = IF readOk
               THEN LET p == from_str(disk.content) IN
                    [call EXCEPT !.pc = "write",
                                 !.data = insert_cursor_config(
                                            IF p.ok THEN p.data ELSE EmptyMap, call.config)]
               ELSE ConfigReturn("Err")
  /\ UNCHANGED <<engine, platform, disk>>

\* `fs::write(&storage_path, updated_content)?; Ok(true)`
CcWrite ==
  /\ call.fn = "clean_cursor_ide" /\ call.pc = "write"
  /\ \E writeOk \in BOOLEAN :
       IF writeOk
       THEN /\ disk' = [disk EXCEPT !.content = value_to_string_pretty(call.data)]
            /\ call' = ConfigReturn("Ok(true)")
       ELSE /\ call' = ConfigReturn("Err")
            /\ UNCHANGED disk
  /\ UNCHANGED <<engine, platform>>

\* the documents Cursor's storage.json can hold before the call
CursorTexts ==
  {TextOf(keys, KeyOrder, "old") : keys \in SUBSET {KeyOrder[i] : i \in 1..Len(KeyOrder)}}
  \cup {NotJson}

\* (the cfg blocks of the three targets differ in the paths only)
InitCursor ==
  /\ EngineIdle
  /\ platform = "-"
  /\ \E home \in BOOLEAN, dir \in BOOLEAN, exists \in BOOLEAN, backup_dir \in BOOLEAN,
        content \in CursorTexts :
       /\ exists => dir
       /\ backup_dir => dir
       /\ ~exists => content = NotJson
       /\ disk = [home |-> home, dir |-> dir, exists |-> exists, content |-> content,
                  backup_dir |-> backup_dir, backups |-> {}]
  /\ call = [fn |-> "clean_cursor_ide", pc |-> "ids", original |-> disk.content,
             config |-> generate_cursor_ids([f \in CursorFields |-> "r1"]),
             dirs |-> FALSE, data |-> EmptyMap, config_updated |-> FALSE,
             errors |-> <<>>, config_result |-> "-"]

NextCursor ==
  \/ CiIds \/ CiFind \/ CiStorage \/ CiDatabases
  \/ CcExists \/ CcBackupDir \/ CcCopy \/ CcRead \/ CcWrite

SpecCursor == InitCursor /\ [][NextCursor]_vars

\* ------------------------------------------------------------------ history
\* the locations on which `op` was attempted by the pipeline in progress
Attempted(op) == {log[i].loc : i \in {j \in 1..Len(log) : log[j].op = op}}

\* the positions of the history where `op` was attempted and failed
Failed(op) == {i \in 1..Len(log) : log[i].op = op /\ ~log[i].ok}

\* a pipeline has been through all its locations and is about to hand back
\* its result (for zen_operations: to send its summary)
PipelineOver == wpc \in {"a_emit", "u_emit", "z_sum"}

\* ------------------------------------------------------------------ C1
\* C1: in clean_augment_extension, clean_cursor_ide and zen_operations, when
\* the pipeline is over every discovered location has had its document
\* mutation attempted, and its database sanitization too unless no_signout,
\* whichever attempts failed: a failure never skips a later location.
C1_EveryLocationAttempted ==
  PipelineOver =>
    /\ Attempted("mutate") = 1..wk.n
    /\ ~args.no_signout => Attempted("sanitize") = 1..wk.n

\* a pipeline is over, its first attempt on location 1 failed and location 2
\* was attempted after it
C1_FailedThenWentOn ==
  /\ PipelineOver
  /\ wk.n = 2
  /\ \E i, j \in 1..Len(log) :
       /\ i < j
       /\ log[i].loc = 1 /\ ~log[i].ok
       /\ log[j].loc = 2 /\ log[j].op = log[i].op

\* ------------------------------------------------------------------ C2
\* C2: in a run started by ZenGarden::run, every failed sub-operation (one
\* document mutation, one flat-file update, one sanitization of one store
\* file, the cursor configuration rewrite) has had a DetailedError sent for it
\* on the channel whose receiver run holds, by the time the worker is done.
C2_EveryFailureDetailed ==
  (body = "zen_operations_with_cards" /\ wpc = "done")
    => sentStat.detailed >= subFails

\* ------------------------------------------------------------------ C3
\* C3: when a pipeline is over and only document mutations failed, the
\* ErrorCollector it hands on holds exactly one error per location whose
\* mutation failed (two locations, the first failing: exactly 1).
C3_ErrorCountIsFailedMutations ==
  (PipelineOver /\ Failed("sanitize") = {} /\ Failed("config") = {})
    => Len(wk.result.errors) = Cardinality(Failed("mutate"))

\* ------------------------------------------------------------------ C4
\* C4: the worker sends OperationComplete exactly once on every path
\* (no locations, failed sub-operations, either body), as its last event:
\* never twice, nothing after it, and it has sent it when it is done.
C4_CompleteOnceAndLast ==
  /\ sentStat.complete <= 1
  /\ sentStat.late = 0
  /\ (wpc = "done") <=> (sentStat.complete = 1)

\* the worker is done after a run in which a sub-operation failed
C4_DoneAfterFailure ==
  /\ wpc = "done"
  /\ sentStat.complete = 1
  /\ subFails > 0

\* ------------------------------------------------------------------ C5
\* C5: when the worker is done, it has sent an ErrorSummary exactly if some
\* sub-operation of the run failed.
C5_SummaryIffFailure ==
  wpc = "done" => ((subFails > 0) <=> (sentStat.summary > 0))

\* ------------------------------------------------------------------ C6
\* the worker's events of a queue, oldest first
WorkerEvents(q) == SelectSeq(q, LAMBDA e : e.src = "worker")

\* C6: the consumer handles the worker's events in the order they were sent,
\* each once: every worker event handled carried the stamp after the one
\* handled before it, and while run has not returned the worker events still
\* queued carry the stamps that follow, in order, up to the last one sent.
C6_HandledInSendOrder ==
  /\ ~lastSeen.disorder
  /\ lastSeen.last <= sentStat.nsent
  /\ RxOpen =>
       LET w == WorkerEvents(chan) IN
         /\ \A k \in 1..Len(w) : w[k].seq = lastSeen.last + k
         /\ lastSeen.last + Len(w) = sentStat.nsent

\* the consumer has handled some of the worker's events while the worker
\* has sent several more that are still queued
C6_HandledSomeMoreQueued ==
  /\ lastSeen.last >= 2
  /\ Len(WorkerEvents(chan)) >= 2

Discovered == \E i \in 1..Len(log) : log[i].op = "discover"

\* C8: the step that sends SetTotalOperations comes with or after discovery,
\* and the count it sends is N without sanitization and 2*N with it, N being
\* the number of locations discovered.
C8_TotalFromDiscovery ==
  [][(sentStat'.totalSet /\ ~sentStat.totalSet)
       => /\ Discovered'
          /\ sentStat'.total = TotalOps(wk'.n, args.no_signout)]_vars

\* ------------------------------------------------------------------ C9
Modifying == {"mutate", "sanitize", "config"}

Work == SelectSeq(log, LAMBDA e : e.op \in {"mutate", "sanitize"})

\* location by location: a before b when a's location is earlier, or the
\* same with a the mutation and b the sanitization
ByLocation(a, b) ==
  \/ a.loc < b.loc
  \/ a.loc = b.loc /\ a.op = "mutate" /\ b.op = "sanitize"

\* phase by phase: a before b when a is in the `first` phase and b in the
\* other, or both in one phase with a's location earlier
ByPhase(first, a, b) ==
  \/ a.op = first /\ b.op # first
  \/ a.op = b.op /\ a.loc < b.loc

\* C10 as stated: every pipeline takes the locations one at a time, mutation
\* then sanitization, both over for location i before either starts for i+1.
C10_OneLocationAtATime ==
  \A i, j \in 1..Len(Work) : i < j => ByLocation(Work[i], Work[j])

\* C10 amended: the attempts follow one another, never two at once, each
\* phase in discovery order; zen_operations goes location by location,
\* clean_augment_extension sanitizes every location and then mutates every
\* location, clean_cursor_ide mutates every location and then sanitizes
\* every location.
C10_InOrderPhaseByPhase ==
  \A i, j \in 1..Len(Work) :
    i < j =>
      CASE Work[i].by = "zen"     -> ByLocation(Work[i], Work[j])
        [] Work[i].by = "augment" -> ByPhase("sanitize", Work[i], Work[j])
        [] Work[i].by = "cursor"  -> ByPhase("mutate", Work[i], Work[j])

\* clean_augment_extension is over after both phases on two locations
C10_AugmentBothPhasesTwice ==
  /\ wpc = "a_emit"
  /\ wk.n = 2
  /\ Len(Work) = 4

\* ------------------------------------------------------------------ C11
\* C11: with no_signout set no database file is sanitized (opened, counted
\* or modified) during the run; with no_terminate set no process is
\* terminated; and whatever the two flags are, when a pipeline is over
\* document mutation has been attempted on every discovered location.
C11_FlagsGateOnlyTheirSteps ==
  /\ args.no_signout => \A i \in 1..Len(log) : log[i].op # "sanitize"
  /\ args.no_terminate => \A i \in 1..Len(log) : log[i].op # "terminate"
  /\ PipelineOver => Attempted("mutate") = 1..wk.n

\* both flags set, and a pipeline over MaxLocs locations has mutated them all
C11_BothFlagsAllMutated ==
  /\ args.no_signout /\ args.no_terminate
  /\ PipelineOver
  /\ wk.n = MaxLocs
  /\ Attempted("mutate") = 1..MaxLocs

\* ------------------------------------------------------------------ C12
\* C12: when update_storage_json has succeeded on a well-formed document,
\* the document written has exactly the keys of the document read, every
\* unrecognized key has its value unchanged, and only recognized telemetry
\* keys have a changed value.
C12_KeySetPreserved ==
  (/\ call.fn = "update_storage_json" /\ call.result = "Ok"
   /\ call.before.exists /\ call.before.content.valid)
  => LET old == from_str(call.before.content).data
         new == from_str(disk.content).data
     IN /\ DOMAIN new = DOMAIN old
        /\ \A k \in DOMAIN old \cap DOMAIN new :
              new[k] # old[k] => k \in TELEMETRY_KEYS

\* ------------------------------------------------------------------ C13
\* C13: when update_storage_json has returned, with Ok or with Err, and no
\* attempt to re-apply the recorded permissions has failed, the file is
\* read-only exactly if it was before the call, and on unix its mode is the
\* mode it had before the call.
C13_ProtectionAsBefore ==
  (/\ call.fn = "update_storage_json" /\ call.pc = "returned"
   /\ ~call.restoreFailed)
  => /\ readonly(disk.perm) = readonly(call.before.perm)
     /\ platform = "unix" => disk.perm.mode = call.before.perm.mode

\* ------------------------------------------------------------------ C14
\* C14: when re-applying the recorded protection state has failed in the
\* restore of update_storage_json, the call has returned Ok and has emitted
\* a Warning about the restore.
C14_RestoreFailureWarned ==
  (/\ call.fn = "update_storage_json" /\ call.pc = "returned"
   /\ call.restoreFailed)
  => /\ call.result = "Ok"
     /\ "could not restore permissions" \in call.warnings

\* ------------------------------------------------------------------ C15
\* C15: when update_machine_id_file has returned Ok, the file exists, holds
\* the identifier generated by the call and nothing else, and is read-only.
C15_FreshIdentifierLocked ==
  (call.fn = "update_machine_id_file" /\ call.result = "Ok")
  => /\ disk.exists
     /\ disk.content = Text("new uuid")
     /\ readonly(disk.perm)

\* success on a file that existed, was writable and held another identifier
C15_WritableFileNowLocked ==
  /\ call.fn = "update_machine_id_file" /\ call.result = "Ok"
  /\ call.before.exists
  /\ ~readonly(call.before.perm)
  /\ call.before.content = Text("old uuid")
  /\ readonly(disk.perm)

\* ------------------------------------------------------------------ C16
\* the files of the call in progress that existed and were sanitized with success
Sanitized == {f \in 1..2 : call.res[f] = "Ok" /\ call.before[f].exists}

\* C16: when a store has been sanitized with success, the rows it holds are
\* exactly the rows it held before whose key does not match the pattern,
\* unchanged, and the number removed is the number of rows that matched; and
\* when the call before sanitized it with success too, no row is removed and
\* the store is as it was.
C16_MatchingRowsRemovedOnce ==
  (call.fn = "clean_vscode_databases") =>
  \A f \in Sanitized :
    LET rows == call.before[f].rows IN
    /\ disk[f].rows = {r \in rows : ~Like(r.key)}
    /\ call.removed[f] = Cardinality({r \in rows : Like(r.key)})
    /\ call.prev.res[f] = "Ok" => call.removed[f] = 0 /\ disk[f].rows = rows

\* a second call removed nothing from a store the first call removed two
\* rows from and left two rows in
C16_SecondRunRemovedNothing ==
  /\ call.fn = "clean_vscode_databases" /\ call.nth = 2 /\ call.pc = "returned"
  /\ 1 \in Sanitized
  /\ call.prev.res[1] = "Ok" /\ call.prev.removed[1] = 2
  /\ call.removed[1] = 0
  /\ Cardinality(disk[1].rows) = 2

\* ------------------------------------------------------------------ C17
\* the key contains the marker, each letter in either case
ContainsAnyCase(key) ==
  \E i \in 0..(Len(key) - Len(Marker)) :
    \A j \in 1..Len(Marker) : key[i + j] \in {Marker[j], KeyUpper[j]}

\* the key contains the marker in exactly its letter case
ContainsExactCase(key) ==
  \E i \in 0..(Len(key) - Len(Marker)) :
    \A j \in 1..Len(Marker) : key[i + j] = Marker[j]

\* C17 as the code has it: when a store has been sanitized with success, a
\* row it held is gone exactly if its key contains the marker 'augment'
\* compared without regard to the case of ASCII letters, and that many rows
\* were counted: a row whose key contains 'AUGMENT' is counted and deleted.
C17_MatchIgnoresAsciiCase ==
  (call.fn = "clean_vscode_databases") =>
  \A f \in Sanitized :
    /\ \A r \in call.before[f].rows : r \notin disk[f].rows <=> ContainsAnyCase(r.key)
    /\ call.removed[f] = Cardinality({r \in call.before[f].rows : ContainsAnyCase(r.key)})

\* C17 as stated: a row is counted and deleted exactly if its key contains
\* 'augment' in that letter case; a row with 'AUGMENT' is kept.
C17_MatchIsCaseSensitive ==
  (call.fn = "clean_vscode_databases") =>
  \A f \in Sanitized :
    /\ \A r \in call.before[f].rows : r \notin disk[f].rows <=> ContainsExactCase(r.key)
    /\ call.removed[f] = Cardinality({r \in call.before[f].rows : ContainsExactCase(r.key)})

\* a store that held a row with key 'AUGMENT' and none with 'augment' has
\* been sanitized: one row counted, the row gone
C17_UpperCaseRowDeleted ==
  /\ call.fn = "clean_vscode_databases"
  /\ 1 \in Sanitized
  /\ Row(KeyUpper) \in call.before[1].rows
  /\ Row(KeyLower) \notin call.before[1].rows
  /\ Row(KeyUpper) \notin disk[1].rows
  /\ call.removed[1] = 1

\* ------------------------------------------------------------------ C18
\* C18: for a store file that was read-only when clean_vscode_databases was
\* called and on which clean_database_file has returned: if it was opened
\* (and acquiring the guard did not fail) a guard was held when it was
\* opened; if neither acquiring the guard nor one of open, count and delete
\* failed for a reason of its own the result is Ok; and (unless re-applying the protection failed) the file
\* is read-only as before, whether the result is Ok or Err.
C18_ReadOnlyStoreSanitized ==
  (call.fn = "clean_vscode_databases") =>
  \A f \in 1..2 :
    (/\ call.res[f] # "-"
     /\ call.before[f].exists /\ readonly(call.before[f].perm))
    => /\ (f \in call.opened /\ f \notin call.guardFailed) => f \in call.guarded
       /\ (f \notin call.envFailed /\ f \notin call.guardFailed) => call.res[f] = "Ok"
       /\ f \notin call.restoreFailed
            => readonly(disk[f].perm) = readonly(call.before[f].perm)

\* ------------------------------------------------------------------ C19
\* the files on which clean_database_file returned Err, in order
FailedFiles == SelectSeq(<<1, 2>>, LAMBDA f : call.res[f] = "Err")

\* C19: when clean_vscode_databases has returned, clean_database_file was
\* called on both files whatever the result for state.vscdb was; the errors
\* collected are one Database error for each file that failed, and one
\* DetailedError was sent for each; a file that did not exist was not opened
\* and has result Ok.
C19_BackupAttemptedErrorsPerFile ==
  (call.fn = "clean_vscode_databases" /\ call.pc = "returned") =>
    /\ call.attempted = {1, 2}
    /\ call.errors = [i \in 1..Len(FailedFiles) |->
                        CleanerError("Database", DbFiles[FailedFiles[i]])]
    /\ Len(SelectSeq(call.events, LAMBDA e : e.type = "DetailedError")) = Len(FailedFiles)
    /\ \A f \in 1..2 : ~call.before[f].exists => call.res[f] = "Ok" /\ f \notin call.opened

\* state.vscdb failed, state.vscdb.backup was then sanitized with success
\* and lost a row; the call returned Err with one error
C19_PrimaryFailedBackupCleaned ==
  /\ call.fn = "clean_vscode_databases" /\ call.pc = "returned"
  /\ call.res[1] = "Err"
  /\ 2 \in Sanitized /\ call.removed[2] > 0
  /\ call.result = "Err" /\ Len(call.errors) = 1

\* ------------------------------------------------------------------ C20
\* C20: when discovery has returned, no two locations of its result refer
\* to the same real directory or file: their canonical paths differ.
C20_NoTwoLocationsSameRealDirectory ==
  (/\ call.fn \in {"find_vscode_storage_directories", "find_augment_storage_directories"}
   /\ call.pc = "returned")
  => \A i, j \in 1..Len(call.out) :
       i # j => Canonical(call.out[i]) # Canonical(call.out[j])
\* ------------------------------------------------------------------ C21
\* the base directories, as written, that exist and can be read
ReadableBases ==
  {disk.base_dirs[i] : i \in {j \in 1..Len(disk.base_dirs) :
     /\ Exists(<<disk.base_dirs[j]>>)
     /\ Canonical(<<disk.base_dirs[j]>>) \notin disk.denied}}

\* the immediate subdirectories of the readable base directories
ChannelDirs ==
  {d \in {<<b, Channels[c]>> : b \in ReadableBases, c \in 1..Len(Channels)} : Exists(d)}

\* the workspace-storage roots that exist and can be read
WorkspaceRoots ==
  {r \in {d \o workspace_patterns[p] : d \in ChannelDirs, p \in 1..Len(workspace_patterns)} :
     Exists(r) /\ Canonical(r) \notin disk.denied}

\* the candidate paths: each global-storage pattern under each immediate
\* subdirectory of each base directory, and each immediate subdirectory of
\* each workspace-storage root
CandidatePaths ==
  {d \o global_patterns[p] : d \in ChannelDirs, p \in 1..Len(global_patterns)}
    \cup {Append(r, Workspaces[w]) : r \in WorkspaceRoots, w \in 1..Len(Workspaces)}

\* C21: when discovery has returned, its result holds exactly the candidate
\* paths that exist, and it has not failed: a base directory or
\* workspace-storage root that is missing or cannot be read contributes
\* nothing.
C21_ResultIsExistingCandidates ==
  (call.fn \in {"find_vscode_storage_directories", "find_augment_storage_directories"}
     /\ call.pc = "returned") =>
    /\ {call.out[i] : i \in 1..Len(call.out)} = {c \in CandidatePaths : Exists(c)}
    /\ call.result = "Ok"

\* discovery has returned locations although one base directory is missing
\* and read_dir was refused on another that holds a location
C21_FoundDespiteMissingAndDenied ==
  /\ call.fn = "find_vscode_storage_directories"
  /\ call.pc = "returned"
  /\ call.out # <<>>
  /\ \E b \in WrittenBases : ~Exists(<<b>>)
  /\ \E b \in WrittenBases :
       /\ Canonical(<<b>>) \in disk.denied
       /\ Exists(<<b, "Code", "machineId">>)

\* ------------------------------------------------------------------ C26
\* the call of update_storage_json found a document that does not parse
Malformed ==
  /\ call.fn \in {"update_storage_json", "update_vscode_storage"}
  /\ ~call.is_file
  /\ call.before.exists
  /\ ~call.before.content.valid

\* C26: when update_storage_json has returned on a malformed document, it
\* has failed only if reading or writing the file failed; once the file was
\* read it has emitted the Warning and gone on from an empty mapping to
\* exactly the recognized keys; and when it has returned Ok the document
\* written holds exactly the recognized keys, each with its fresh value.
C26_MalformedDocumentReplaced ==
  (Malformed /\ call.fn = "update_storage_json" /\ call.pc = "returned") =>
    /\ call.error \in {"-", "failed to read storage.json",
                       "failed to write updated storage.json"}
    /\ (call.result = "Ok") <=> (call.error = "-")
    /\ call.error # "failed to read storage.json" =>
         /\ "invalid json" \in call.warnings
         /\ DOMAIN call.data = TELEMETRY_KEYS
    /\ call.result = "Ok" =>
         /\ disk.content.valid
         /\ from_str(disk.content).data =
              [k \in TELEMETRY_KEYS |->
                 (IF k = "telemetry.devDeviceId" THEN "uuid " ELSE "sha256 ") \o call.draws[k]]

\* the call has returned Ok on a malformed document, which is now well
\* formed, and has warned
C26_MalformedNowWellFormed ==
  /\ Malformed /\ call.fn = "update_storage_json" /\ call.pc = "returned"
  /\ call.result = "Ok"
  /\ "invalid json" \in call.warnings
  /\ disk.content.valid
  /\ disk.content # call.before.content

\* ------------------------------------------------------------------ C27
\* C27: when update_vscode_storage has returned, the document update was
\* attempted, and the flat-file update exactly if the location is a file;
\* its collector holds one FileSystem error for each sub-operation that
\* failed, in order, each sent as a DetailedError, with an ErrorSummary
\* after them if there is any; and it has returned Err exactly if a
\* sub-operation failed.
C27_SubOperationsIsolated ==
  (call.fn = "update_vscode_storage" /\ call.pc = "returned") =>
    LET expected ==
          (IF call.sub.json = "Err"
           THEN <<CleanerError("FileSystem", "updating storage.json")>> ELSE <<>>)
          \o (IF call.sub.file = "Err"
              THEN <<CleanerError("FileSystem", "updating machine id file")>> ELSE <<>>)
    IN /\ call.sub.json \in {"Ok", "Err"}
       /\ call.is_file <=> call.sub.file \in {"Ok", "Err"}
       /\ call.errors = expected
       /\ call.events =
            [i \in 1..Len(expected) |-> DetailedError(expected[i])]
            \o (IF expected = <<>> THEN <<>> ELSE <<ErrorSummary(expected)>>)
       /\ (call.outer_result = "Err") <=> (expected # <<>>)

\* update_vscode_storage has returned Err with the one error of its
\* document update, which failed on a location that is a directory
C27_DocumentFailureReported ==
  /\ call.fn = "update_vscode_storage" /\ call.pc = "returned"
  /\ call.sub = [json |-> "Err", file |-> "-"]
  /\ call.outer_result = "Err"
  /\ Len(call.errors) = 1

\* ------------------------------------------------------------------ C28
\* C28: in update_storage_json, from the end of the loop over the
\* recognized keys on, the value held for each recognized key is made from
\* that key's own draw and from nothing else, whatever the document held,
\* and so is the value in the document written; each field of
\* generate_cursor_ids is made from its own draw.
C28_NewValueFromOwnDrawOnly ==
  /\ (call.fn = "update_storage_json" /\ call.draws # NoDraws) =>
       /\ \A k \in TELEMETRY_KEYS :
            /\ call.draws[k] \in Draws
            /\ call.data[k] =
                 (IF k = "telemetry.devDeviceId" THEN "uuid " ELSE "sha256 ") \o call.draws[k]
       /\ call.result = "Ok" =>
            \A k \in TELEMETRY_KEYS : from_str(disk.content).data[k] = call.data[k]
  /\ (call.fn = "generate_cursor_ids" /\ call.pc = "returned") =>
       /\ call.data["telemetry_mac_machine_id"] = "uuid " \o call.draws["telemetry_mac_machine_id"]
       /\ call.data["telemetry_dev_device_id"] = "uuid " \o call.draws["telemetry_dev_device_id"]
       /\ call.data["telemetry_sqm_id"] = "{UUID " \o call.draws["telemetry_sqm_id"] \o "}"
       /\ call.data["telemetry_machine_id"] =
            "hex auth0|user_hex " \o call.draws["telemetry_machine_id"]

\* a document whose recognized keys all held the same value has been
\* rewritten with different values for two keys of the same kind
C28_SameOldValuesDifferentNew ==
  /\ call.fn = "update_storage_json" /\ call.result = "Ok"
  /\ call.before.content.valid
  /\ TELEMETRY_KEYS \subseteq DOMAIN from_str(call.before.content).data
  /\ from_str(disk.content).data["telemetry.machineId"]
       # from_str(disk.content).data["telemetry.macMachineId"]

\* ------------------------------------------------------------------ C22
\* C22: the processes selected by terminate_vscode_processes and by
\* discover_vscode_processes never include the current process, and when
\* the call has returned they are exactly the other processes of the table
\* that match a signature.
C22_CurrentProcessNeverSelected ==
  call.fn \in {"terminate_vscode_processes", "discover_vscode_processes"} =>
    /\ CurrentPid \notin call.selected
    /\ call.pc = "returned" =>
         call.selected = {p \in Pids \ {CurrentPid} :
                            disk.table[p].present /\ is_vscode(p, disk.table[p])}

\* ------------------------------------------------------------------ C23
\* C23: every attempt to terminate a process made by
\* terminate_vscode_processes, terminate_augment_processes or
\* terminate_cursor_processes is reported with its outcome: the target of
\* an attempt that succeeded is reported as terminated, the target of an
\* attempt that failed is reported as not terminated, and a target on which
\* no attempt succeeded is not reported as terminated.
C23_EveryAttemptReported ==
  call.fn \in {"terminate_vscode_processes", "terminate_augment_processes",
               "terminate_cursor_processes"} =>
    \A i \in 1..Len(call.attempts) :
      LET a == call.attempts[i] IN
      /\ a.ok => a.target \in call.terminated
      /\ ~a.ok => a.target \in call.failed
      /\ (\A j \in 1..Len(call.attempts) :
            call.attempts[j].target = a.target => ~call.attempts[j].ok)
           => a.target \notin call.terminated

\* ------------------------------------------------------------------ C24
\* the events that report a failure
FailureEvents == {"Error", "DetailedError", "ErrorSummary"}

\* the events and history entries that report a change of a document or a store
MutationEvents == {"StorageUpdated", "DatabaseCleaned"}
MutationOps == {"mutate", "sanitize"}

\* C24: when a pipeline whose discovery returned no location is over, it
\* has attempted no mutation and no sanitization, has changed no
\* configuration file and has collected no error, and what is sent for it
\* holds no Error, DetailedError or ErrorSummary and no report of a change;
\* zen_operations then sends no failure event at all; and a worker that is
\* done has sent OperationComplete.
C24_NoLocationNoFailureNoChange ==
  /\ (wpc \in {"a_emit", "u_emit"} /\ wk.n = 0) =>
       LET sent == IF wpc = "a_emit" THEN AugmentEvents(wk.result)
                   ELSE CursorEvents(wk.result)
       IN /\ \A i \in 1..Len(sent) : sent[i].type \notin FailureEvents \cup MutationEvents
          /\ \A i \in 1..Len(log) : log[i].op \notin MutationOps /\ log[i].ok
          /\ wk.result.errors = <<>>
          /\ ~wk.result.config_updated
  /\ (body = "zen_operations" /\ wk.n = 0 /\ wpc \in {"z_empty", "z_empty_complete", "done"}) =>
       /\ sentStat.summary = 0 /\ sentStat.detailed = 0
       /\ \A i \in 1..Len(log) : log[i].op \notin MutationOps
  /\ wpc = "done" => sentStat.complete = 1

\* clean_cursor_ide is over: with termination and sanitization both on it
\* has found no directory, and has gone through its configuration step
C24_CursorFoundNothing ==
  /\ wpc = "u_emit"
  /\ wk.n = 0
  /\ ~args.no_signout /\ ~args.no_terminate
  /\ \E i \in 1..Len(log) : log[i].op = "config"

CallsOf(method) == SelectSeq(call.history, LAMBDA h : h.method = method)

\* C30: after any sequence of add_error and add_warning calls the
\* collector holds the errors and the warnings of the calls in call order,
\* the counts are the numbers of calls, has_errors and has_warnings hold
\* exactly for a count above 0, and get_summary is the success text exactly
\* when both counts are 0 and otherwise names the non-zero counts, errors
\* first, and only them.
C30_CollectorHoldsCallsInOrder ==
  call.fn = "ErrorCollector" =>
    LET es == CallsOf("add_error")
        ws == CallsOf("add_warning")
        nonzero == SelectSeq(<<Len(es), Len(ws)>>, LAMBDA n : n # 0)
    IN /\ call.errors = [i \in 1..Len(es) |-> es[i].error]
       /\ call.warnings = [i \in 1..Len(ws) |-> ws[i].warning]
       /\ error_count(call) = Len(es)
       /\ warning_count(call) = Len(ws)
       /\ has_errors(call) <=> Len(es) > 0
       /\ has_warnings(call) <=> Len(ws) > 0
       /\ (get_summary(call).text = "all operations completed successfully")
            <=> (Len(es) = 0 /\ Len(ws) = 0)
       /\ get_summary(call).args = nonzero
       /\ get_summary(call).text =
            (IF nonzero = <<>> THEN "all operations completed successfully"
             ELSE "completed with "
                  \o (IF Len(es) # 0 THEN "{} errors" ELSE "")
                  \o (IF Len(es) # 0 /\ Len(ws) # 0 THEN " and " ELSE "")
                  \o (IF Len(ws) # 0 THEN "{} warnings" ELSE ""))

\* the same error was added twice with a warning between the two calls
C30_SameErrorTwiceAroundWarning ==
  /\ call.fn = "ErrorCollector"
  /\ Len(call.history) = 3
  /\ call.history[1].method = "add_error"
  /\ call.history[2].method = "add_warning"
  /\ call.history[3] = call.history[1]
  /\ get_summary(call).args = <<2, 1>>

\* ------------------------------------------------------------------ C31
\* C31: in one run of ZenGarden::run at most one background worker is ever
\* spawned, and only with a non-empty card set: the flagged cards when run
\* starts, or the cards selected when Enter is pressed on the selection
\* screen.  On the selection screen with no card selected no step (Enter
\* included) spawns a worker or leaves the selection screen.
C31_AtMostOneWorkerWithCards ==
  [][/\ wk'.spawned <= 1
     /\ wk'.spawned > wk.spawned =>
           /\ wk'.selected_cards # {}
           /\ wk'.selected_cards =
                IF cpc = "new" THEN {c \in Cards : IF c = "Augment" THEN args.augment ELSE args.cursor}
                ELSE {c \in Cards : ui.cards[c]}
           /\ cpc = "loop" => ui.state = "CardSelection"
     /\ (cpc = "loop" /\ ui.state = "CardSelection" /\ \A c \in Cards : ~ui.cards[c]) =>
           (wk'.spawned = wk.spawned /\ ui'.state = "CardSelection")]_vars

\* a worker spawned by Enter with a card chosen on the selection screen ran
\* to its end
C31_SpawnedFromSelection ==
  /\ ~args.augment /\ ~args.cursor
  /\ wk.spawned = 1
  /\ wk.selected_cards = {"Cursor"}
  /\ wpc = "done"

\* ------------------------------------------------------------------ C32
\* C32: once a SetTotalOperations event has been handled, the operations
\* counted as completed never exceed the announced total, so the progress
\* shown is at most 1, however many locations were found and processes
\* terminated.
C32_CompletedWithinTotal ==
  ui.total_operations > 0 =>
    /\ ui.completed_operations <= ui.total_operations
    /\ ui.progress.num <= ui.progress.den

C35_BackupBeforeModification ==
  (call.fn = "clean_cursor_ide" /\ disk.exists) =>
    (disk.content # call.original => call.original \in disk.backups)

\* ------------------------------------------------------------------ C36
\* C36: the flat identifier file is never lost: when update_machine_id_file
\* has returned, Ok or Err, on a file that existed, the file still exists
\* and holds either the identifier it held before or a complete new one.
C36_IdentifierFileNeverLost ==
  (call.fn = "update_machine_id_file" /\ call.pc = "returned" /\ call.before.exists) =>
    /\ disk.exists
    /\ disk.content \in {call.before.content, Text("new uuid")}

\* ------------------------------------------------------------------ C37
\* C37: terminate_vscode_processes terminates only processes that match a
\* signature and their descendants: never the current process, and never
\* a process that neither matches nor descends from one that does, the
\* calls of kill_tree on a matched process's parent included.
C37_OnlyMatchedTreesTerminated ==
  call.fn = "terminate_vscode_processes" =>
    /\ CurrentPid \notin disk.dead
    /\ disk.dead \subseteq
         TreeOf(disk.table,
                {p \in Pids : disk.table[p].present /\ is_vscode(p, disk.table[p])},
                Cardinality(Pids))

\* ------------------------------------------------------------------ C38
\* the units of work (one update or one sanitization of one location) the
\* pipeline in progress has made
WorkDone == Cardinality({i \in 1..Len(log) : log[i].op \in MutationOps})

C39_UpdatedOnlyIfRewritten ==
  (call.fn = "update_vscode_storage" /\ call.pc = "matched" /\ call.pushed) =>
    /\ call.before.exists /\ disk.exists
    /\ disk.content # call.before.content

\* ------------------------------------------------------------------ C25
\* C25: when run of main.rs has returned after finding paths, then for each
\* step that failed on a path, both steps, update_storage and clean_db,
\* have been made on every later path.
C25_LaterPathsBothSteps ==
  (call.fn = "run" /\ call.pc = "returned" /\ disk # <<>>) =>
    \A f \in 1..Len(call.steps) :
      ~call.steps[f].ok =>
        \A i \in (call.steps[f].loc + 1)..Len(disk) :
          \A step \in {"update_storage", "clean_db"} :
            \E k \in 1..Len(call.steps) :
              call.steps[k].loc = i /\ call.steps[k].step = step

====
